---- MODULE Spec2Model ----
(***************************************************************************)
(* mimir: Rust bindings over ODPI-C.  The wrapper types (Connection,       *)
(* Statement, Var, Context) hold a raw pointer to a native, reference      *)
(* counted object and forward every call to the native library.  The model *)
(* has two layers: the native objects, with the behaviour the doc comments *)
(* of the wrapper functions state for them, and the wrapper functions,     *)
(* translated from their bodies.                                           *)
(***************************************************************************)
EXTENDS Integers, Sequences, FiniteSets, TLC

\* ---------------------------------------------------------------- bounds
MaxStmts == 1      \* statements the application prepares
MaxVars  == 2      \* variables the application creates
MaxRefs  == 2      \* references the application holds on one handle
MaxCols  == 2      \* query columns of a prepared text
MaxArraySize == 2  \* elements a variable is created with
MaxBytes == 2      \* bytes the buffer of one element holds
MaxRows  == 3      \* rows the table holds
MaxNames == 3      \* bind names get_bind_names is asked for
MaxElems == 3      \* elements a collection holds
MaxThreads == 3    \* tests the harness runs at the same time
MaxLobSize == 16264 \* bytes the application writes into a LOB
MaxCtxts == 3      \* contexts the application creates besides its first
MaxAttrs == 2      \* attributes of an object type
MaxWrappers == 2   \* wrapper values the application holds for one handle

StmtIds == 1 .. MaxStmts
VarIds  == 1 .. MaxVars
NoVar   == 0
CellIds == 0 .. (MaxArraySize - 1)
\* a pointer: ptr::null_mut(), or the address of some memory
NullPtr == [null |-> TRUE, at |-> <<>>]
Ptr(memory) == [null |-> FALSE, at |-> memory]

\* strings as the bytes of their UTF-8 encoding: "", "j", "jo", "joz"
Strings == {<<>>, <<106>>, <<106, 111>>, <<106, 111, 122>>}

\* one element of a variable: ODPIData { is_null, value.as_bytes }
NullCell == [null |-> TRUE, bytes |-> <<>>]
BytesCell(b) == [null |-> FALSE, bytes |-> b]
\* an element that refers to a LOB, an object, a rowid or a statement
RefCell(kind) == [null |-> FALSE, bytes |-> <<>>, ref |-> kind]

\* execution modes: flags::DPI_MODE_EXEC_DEFAULT, flags::DPI_MODE_EXEC_BATCH_ERRORS
ExecModes == {"DEFAULT", "BATCH_ERRORS"}

BindNames     == {":username"}
BindPositions == {1}

Status == {"DPI_SUCCESS", "DPI_FAILURE"}
CtxIds == 1 .. MaxCtxts

None == "None"
SqlArgs == {None, "sql"}
\* the text of a DML statement with a RETURNING clause
DmlReturning == "dml returning"
TagArgs == {None, "tag"}

\* ------------------------------------------------- native error side channel
NoInfo == [fn |-> "", code |-> ""]
ErrInfo(fn, code) == [fn |-> fn, code |-> code]

\* ------------------------------------------------------- wrapper results
NoErr == [kind |-> "", fn |-> ""]
ErrorKind(kind, fn) == [kind |-> kind, fn |-> fn]

VARIABLES
    heap,      \* the native library's objects: conn, stmts, vars, binds
    errSlot,   \* the native library's last error of this thread
    ret,       \* the last wrapper call and what it returned
    app        \* what the application did with each handle it holds

vars == <<heap, errSlot, ret, app>>

\* ------------------------------------------------------------ native heap
NewStmt == [made |-> FALSE, refs |-> 0, open |-> FALSE, cols |-> 0,
            scrollable |-> FALSE, executed |-> FALSE]
FreedStmt == [NewStmt EXCEPT !.made = TRUE]
NewVarObj == [made |-> FALSE, refs |-> 0]
\* the buffers of a variable: size elements of cap bytes each
NoData == [size |-> 0, cap |-> 0, cells |-> [i \in CellIds |-> NullCell]]
\* what the last execute_many of a statement left: the offsets of the rows
\* that failed in batch errors mode
NoBatch == <<>>
\* a collection object: indices 0 .. len - 1 are allocated, and an allocated
\* index holds an element unless the element was deleted
ElemIds == 0 .. (MaxElems - 1)
Hole == [exists |-> FALSE, data |-> NullCell]
Element(data) == [exists |-> TRUE, data |-> data]
NoElements == [len |-> 0, elems |-> [i \in ElemIds |-> Hole]]
Existing(c) == {i \in ElemIds : i < c.len /\ c.elems[i].exists}
\* the threads of the test harness, one per test function; step counts the
\* wrapper calls the test has completed, inside says that the thread is in a
\* native call on handle, raced that another thread was in a native call on
\* the same handle meanwhile
Threads == 1 .. MaxThreads
NoHandle == [kind |-> "", id |-> 0]
\* static ref CONN: the one connection every test takes by reference
CONN == [kind |-> "Connection", id |-> 0]
\* the statement a test prepares and keeps in a local
LocalStmt(t) == [kind |-> "Statement", id |-> t]
NotStarted == [step |-> 0, inside |-> FALSE, handle |-> NoHandle, raced |-> FALSE]
\* the application walking over the indices of the collection: the direction,
\* the indices it was given so far, and whether it was told that no more exist
\* an ODPIData the application looks at through a Data: the native type the
\* library uses it for, is_null and the member of value for that type
ODPIData(native_type, is_null, value) ==
    [native_type |-> native_type, is_null |-> is_null, value |-> value]
\* Default for ODPIData: is_null: 1, value: as_boolean: 0
DefaultData == ODPIData("Boolean", 1, 0)
\* the object type the application looked up, and its number of attributes
NoObjType == [made |-> FALSE, num_attributes |-> 0]
\* an object or a subscription of the library: its reference count, and open
\* until it is closed
NoHandleObj == [made |-> FALSE, refs |-> 0, open |-> FALSE]
NewHandleObj == [made |-> TRUE, refs |-> 1, open |-> TRUE]
\* the kinds of wrapper that derive Clone; app.wrappers counts the wrapper
\* values of each kind that the application holds
WrapperKinds == {"Object", "Subscription"}
NoCtx == [made |-> FALSE, destroys |-> 0]
\* the Context value of the application: none yet, the fields of the one it
\* owns, or dropped
NoContext == [state |-> "none", stdout |-> None, stderr |-> None]
NoWalk == [dir |-> "none", seen |-> <<>>, done |-> FALSE]
\* the content of a LOB, as runs of equal bytes: n bytes of value b each
NoLob == [made |-> FALSE, runs |-> <<>>]
\* the distributed transaction of the connection: none begun
NoTxn == [begun |-> FALSE, format_id |-> 0, txn_id |-> 0, branch_id |-> 0]
NoBinds == [name |-> [n \in BindNames |-> NoVar],
            pos  |-> [p \in BindPositions |-> NoVar]]

\* an object whose last reference was released: its memory is freed
Freed(o) == o.refs = 0

\* the result of a native call: return code, heap after, error set, out value
Native(rc, h, fn, code, out) ==
    [rc |-> rc, heap |-> h,
     err |-> IF rc = "DPI_SUCCESS" THEN NoInfo ELSE ErrInfo(fn, code),
     out |-> out]

\* a native call that received a pointer to freed memory: the behaviour is
\* undefined; ub is the return code the call happens to produce
Undefined(h, fn, ub) == Native(ub, h, fn, "invalid handle", 0)

Succeeded(h, fn, out) == Native("DPI_SUCCESS", h, fn, "", out)
Failed(h, fn, code)   == Native("DPI_FAILURE", h, fn, code, 0)

\* a count that is given up n times; a freed object stays freed
Minus(refs, n) == IF refs > n THEN refs - n ELSE 0

\* how many placeholders of a statement hold variable v
BindCount(b, v) ==
    Cardinality({n \in BindNames : b.name[n] = v})
      + Cardinality({p \in BindPositions : b.pos[p] = v})

\* the library gives up the references a statement holds on its bound variables
ReleaseBinds(h, s) ==
    [h EXCEPT !.vars = [v \in VarIds |->
                          [@[v] EXCEPT !.refs = Minus(@, BindCount(h.binds[s], v))]],
              !.binds[s] = NoBinds]

\* ----------------------------------------------------- native: connection
dpiConn_addRef(h, ub) ==
    IF Freed(h.conn) THEN Undefined(h, "dpiConn_addRef", ub)
    ELSE Succeeded([h EXCEPT !.conn.refs = @ + 1], "dpiConn_addRef", 0)

\* the last release closes the connection if close() has not, and frees it
dpiConn_release(h, ub) ==
    IF Freed(h.conn) THEN Undefined(h, "dpiConn_release", ub)
    ELSE Succeeded([h EXCEPT !.conn.refs = @ - 1,
                             !.conn.open = IF h.conn.refs = 1 THEN FALSE ELSE @],
                   "dpiConn_release", 0)

\* closes the connection and makes it unusable for further activity
dpiConn_close(h, ub) ==
    IF Freed(h.conn) THEN Undefined(h, "dpiConn_close", ub)
    ELSE IF ~h.conn.open THEN Failed(h, "dpiConn_close", "not connected")
    ELSE Succeeded([h EXCEPT !.conn.open = FALSE], "dpiConn_close", 0)

\* begins a distributed transaction with the XID made up of formatId,
\* transactionId and branchId; the ids are byte strings, kept as their lengths
dpiConn_beginDistribTrans(h, format_id, txn_id_len, branch_id_len, ub) ==
    IF Freed(h.conn) THEN Undefined(h, "dpiConn_beginDistribTrans", ub)
    ELSE IF ~h.conn.open THEN Failed(h, "dpiConn_beginDistribTrans", "not connected")
    ELSE Succeeded([h EXCEPT !.txn = [begun |-> TRUE, format_id |-> format_id,
                                      txn_id |-> txn_id_len,
                                      branch_id |-> branch_id_len]],
                   "dpiConn_beginDistribTrans", 0)

FreeStmtIds(h) == {s \in StmtIds : ~h.stmts[s].made}
FreeVarIds(h)  == {v \in VarIds : ~h.vars[v].made}

\* sql may be null only if tag is given, and tag only if sql is given.
\* cols is what the statement text selects: 0 for a text that is no query.
\* The out value is the new statement, 0 (a null pointer) when none is made.
dpiConn_prepareStmt(h, scrollable, sql, tag, cols, ub) ==
    IF Freed(h.conn) THEN Undefined(h, "dpiConn_prepareStmt", ub)
    ELSE IF ~h.conn.open THEN Failed(h, "dpiConn_prepareStmt", "not connected")
    ELSE IF sql = None /\ tag = None
         THEN Failed(h, "dpiConn_prepareStmt", "no statement text")
    ELSE LET s == CHOOSE x \in FreeStmtIds(h) : \A y \in FreeStmtIds(h) : x <= y
         IN Succeeded([h EXCEPT !.stmts[s] =
                          [made |-> TRUE, refs |-> 1, open |-> TRUE, cols |-> cols,
                           scrollable |-> (scrollable # 0 /\ cols > 0),
                           executed |-> FALSE],
                                !.returning[s] = (sql = DmlReturning /\ cols = 0)],
                      "dpiConn_prepareStmt", s)

dpiConn_newVar(h, max_array_size, size, ub) ==
    IF Freed(h.conn) THEN Undefined(h, "dpiConn_newVar", ub)
    ELSE IF ~h.conn.open THEN Failed(h, "dpiConn_newVar", "not connected")
    ELSE LET v == CHOOSE x \in FreeVarIds(h) : \A y \in FreeVarIds(h) : x <= y
         IN Succeeded([h EXCEPT !.vars[v] = [made |-> TRUE, refs |-> 1],
                                !.data[v] = [NoData EXCEPT !.size = max_array_size,
                                                           !.cap = size]],
                      "dpiConn_newVar", v)

\* ------------------------------------------------------ native: variable
dpiVar_addRef(h, v, ub) ==
    IF Freed(h.vars[v]) THEN Undefined(h, "dpiVar_addRef", ub)
    ELSE Succeeded([h EXCEPT !.vars[v].refs = @ + 1], "dpiVar_addRef", 0)

dpiVar_release(h, v, ub) ==
    IF Freed(h.vars[v]) THEN Undefined(h, "dpiVar_release", ub)
    ELSE Succeeded([h EXCEPT !.vars[v].refs = @ - 1], "dpiVar_release", 0)

\* ----------------------------------------------------- native: statement
\* a statement can do work while it is open and its connection is connected
StmtCheck(h, s) ==
    IF ~h.stmts[s].open THEN "statement closed"
    ELSE IF Freed(h.conn) \/ ~h.conn.open THEN "not connected"
    ELSE ""

dpiStmt_addRef(h, s, ub) ==
    IF Freed(h.stmts[s]) THEN Undefined(h, "dpiStmt_addRef", ub)
    ELSE Succeeded([h EXCEPT !.stmts[s].refs = @ + 1], "dpiStmt_addRef", 0)

\* the last release closes the statement if close() has not, gives up the
\* references on its bound variables and frees it
dpiStmt_release(h, s, ub) ==
    IF Freed(h.stmts[s]) THEN Undefined(h, "dpiStmt_release", ub)
    ELSE IF h.stmts[s].refs > 1
         THEN Succeeded([h EXCEPT !.stmts[s].refs = @ - 1], "dpiStmt_release", 0)
    ELSE Succeeded(ReleaseBinds([h EXCEPT !.stmts[s] = FreedStmt], s),
                   "dpiStmt_release", 0)

\* closes the statement at once, whatever its reference count
dpiStmt_close(h, s, ub) ==
    IF Freed(h.stmts[s]) THEN Undefined(h, "dpiStmt_close", ub)
    ELSE IF ~h.stmts[s].open THEN Failed(h, "dpiStmt_close", "statement closed")
    ELSE Succeeded([h EXCEPT !.stmts[s].open = FALSE], "dpiStmt_close", 0)

\* a reference to var is retained by the library and the variable bound to the
\* same name before is released
dpiStmt_bindByName(h, s, name, v, ub) ==
    IF Freed(h.stmts[s]) \/ Freed(h.vars[v])
    THEN Undefined(h, "dpiStmt_bindByName", ub)
    ELSE IF StmtCheck(h, s) # "" THEN Failed(h, "dpiStmt_bindByName", StmtCheck(h, s))
    ELSE IF name \notin BindNames
         THEN Failed(h, "dpiStmt_bindByName", "no such placeholder")
    ELSE LET old == h.binds[s].name[name]
             h1  == [h EXCEPT !.vars[v].refs = @ + 1, !.binds[s].name[name] = v]
         IN Succeeded(IF old = NoVar THEN h1
                      ELSE [h1 EXCEPT !.vars[old].refs = Minus(@, 1)],
                      "dpiStmt_bindByName", 0)

\* a reference to var is retained by the library and the variable bound to the
\* same position before is released
dpiStmt_bindByPos(h, s, pos, v, ub) ==
    IF Freed(h.stmts[s]) \/ Freed(h.vars[v])
    THEN Undefined(h, "dpiStmt_bindByPos", ub)
    ELSE IF StmtCheck(h, s) # "" THEN Failed(h, "dpiStmt_bindByPos", StmtCheck(h, s))
    ELSE IF pos \notin BindPositions
         THEN Failed(h, "dpiStmt_bindByPos", "no such placeholder")
    ELSE LET old == h.binds[s].pos[pos]
             h1  == [h EXCEPT !.vars[v].refs = @ + 1, !.binds[s].pos[pos] = v]
         IN Succeeded(IF old = NoVar THEN h1
                      ELSE [h1 EXCEPT !.vars[old].refs = Minus(@, 1)],
                      "dpiStmt_bindByPos", 0)

\* a DML returning statement replaces the buffers of the variables bound to
\* it: they get one element for each row the statement returned, here every
\* row of the table
Returned(h, s) ==
    IF ~h.returning[s] THEN h
    ELSE [h EXCEPT !.data =
            [v \in VarIds |->
               IF v = NoVar \/ v \notin {h.binds[s].name[n] : n \in BindNames}
                                  \cup {h.binds[s].pos[p] : p \in BindPositions}
               THEN @[v]
               ELSE [@[v] EXCEPT
                       !.size  = Len(h.table),
                       !.cells = [i \in CellIds \cup (0 .. (Len(h.table) - 1)) |->
                                    IF i < Len(h.table) THEN BytesCell(h.table[i + 1])
                                    ELSE NullCell]]]]

\* out value: the number of columns queried, 0 for a statement that is no query
dpiStmt_execute(h, s, ub) ==
    IF Freed(h.stmts[s]) THEN Undefined(h, "dpiStmt_execute", ub)
    ELSE IF StmtCheck(h, s) # "" THEN Failed(h, "dpiStmt_execute", StmtCheck(h, s))
    ELSE Succeeded(Returned([h EXCEPT !.stmts[s].executed = TRUE], s),
                   "dpiStmt_execute", h.stmts[s].cols)

\* the columns are defined from the metadata the execution made available;
\* a statement that is no query is an error
FetchCheck(h, s) ==
    IF StmtCheck(h, s) # "" THEN StmtCheck(h, s)
    ELSE IF h.stmts[s].cols = 0 THEN "not a query"
    ELSE IF ~h.stmts[s].executed THEN "query not executed"
    ELSE ""

dpiStmt_fetch(h, s, ub) ==
    IF Freed(h.stmts[s]) THEN Undefined(h, "dpiStmt_fetch", ub)
    ELSE IF FetchCheck(h, s) # "" THEN Failed(h, "dpiStmt_fetch", FetchCheck(h, s))
    ELSE Succeeded(h, "dpiStmt_fetch", 0)

dpiStmt_fetchRows(h, s, ub) ==
    IF Freed(h.stmts[s]) THEN Undefined(h, "dpiStmt_fetchRows", ub)
    ELSE IF FetchCheck(h, s) # "" THEN Failed(h, "dpiStmt_fetchRows", FetchCheck(h, s))
    ELSE Succeeded(h, "dpiStmt_fetchRows", 0)

\* the cursor can be repositioned only on a statement prepared scrollable
dpiStmt_scroll(h, s, ub) ==
    IF Freed(h.stmts[s]) THEN Undefined(h, "dpiStmt_scroll", ub)
    ELSE IF FetchCheck(h, s) # "" THEN Failed(h, "dpiStmt_scroll", FetchCheck(h, s))
    ELSE IF ~h.stmts[s].scrollable THEN Failed(h, "dpiStmt_scroll", "not scrollable")
    ELSE Succeeded(h, "dpiStmt_scroll", 0)

\* ---------------------------------------------- native: variable buffers
\* the data is copied to the buffer of element pos; a position that exceeds
\* the number of elements allocated, or a value the buffer cannot hold, is an
\* error
dpiVar_setFromBytes(h, v, pos, value, ub) ==
    IF Freed(h.vars[v]) THEN Undefined(h, "dpiVar_setFromBytes", ub)
    ELSE IF pos >= h.data[v].size
         THEN Failed(h, "dpiVar_setFromBytes", "array position out of range")
    ELSE IF Len(value) > h.data[v].cap
         THEN Failed(h, "dpiVar_setFromBytes", "buffer size too small")
    ELSE Succeeded([h EXCEPT !.data[v].cells[pos] = BytesCell(value)],
                   "dpiVar_setFromBytes", 0)

\* the number of elements allocated and the array of them
dpiVar_getData(h, v, ub) ==
    IF Freed(h.vars[v]) THEN Undefined(h, "dpiVar_getData", ub)
    ELSE Succeeded(h, "dpiVar_getData",
                   [num_elements |-> h.data[v].size,
                    data_arr_ptr |-> IF h.data[v].size = 0 THEN NullPtr
                                     ELSE Ptr(h.data[v].cells)])

\* sets element pos to a reference; a position that exceeds the number of
\* elements allocated is an error
SetFromRef(h, v, pos, kind, fn, ub) ==
    IF Freed(h.vars[v]) THEN Undefined(h, fn, ub)
    ELSE IF pos >= h.data[v].size THEN Failed(h, fn, "array position out of range")
    ELSE Succeeded([h EXCEPT !.data[v].cells[pos] = RefCell(kind)], fn, 0)

dpiVar_setFromLob(h, v, pos, ub) ==
    SetFromRef(h, v, pos, "lob", "dpiVar_setFromLob", ub)

dpiVar_setFromObject(h, v, pos, ub) ==
    SetFromRef(h, v, pos, "object", "dpiVar_setFromObject", ub)

dpiVar_setFromRowid(h, v, pos, ub) ==
    SetFromRef(h, v, pos, "rowid", "dpiVar_setFromRowid", ub)

dpiVar_setFromStmt(h, v, pos, ub) ==
    SetFromRef(h, v, pos, "stmt", "dpiVar_setFromStmt", ub)

\* copies element sourcePos of sourceVar to element pos of var; a position
\* that exceeds the number of elements allocated in its variable is an error
dpiVar_copyData(h, var, pos, sourceVar, sourcePos, ub) ==
    IF Freed(h.vars[var]) \/ Freed(h.vars[sourceVar])
    THEN Undefined(h, "dpiVar_copyData", ub)
    ELSE IF sourcePos >= h.data[sourceVar].size \/ pos >= h.data[var].size
         THEN Failed(h, "dpiVar_copyData", "array position out of range")
    ELSE Succeeded([h EXCEPT !.data[var].cells[pos] =
                                 h.data[sourceVar].cells[sourcePos]],
                   "dpiVar_copyData", 0)

\* --------------------------------------------- native: array execution
\* the variables a statement holds in its placeholders
BoundVars(h, s) ==
    {h.binds[s].name[n] : n \in BindNames}
        \cup {h.binds[s].pos[p] : p \in BindPositions}

\* the variable that supplies the rows: the one bound by position, else by name
RowVar(h, s) ==
    LET byPos == {h.binds[s].pos[p] : p \in BindPositions} \ {NoVar}
    IN IF byPos # {} THEN CHOOSE v \in byPos : TRUE
       ELSE CHOOSE v \in BoundVars(h, s) \ {NoVar} : TRUE

\* the offsets below k whose row the table refuses: a null element
BadRows(h, s, k) == {i \in 0 .. (k - 1) : h.data[RowVar(h, s)].cells[i].null}

\* the offsets of set, in increasing order
RECURSIVE Ascending(_)
Ascending(set) ==
    IF set = {} THEN <<>>
    ELSE LET m == CHOOSE x \in set : \A y \in set : x <= y
         IN <<m>> \o Ascending(set \ {m})

\* the rows at the offsets of seq, as the table stores them
RECURSIVE RowsAt(_, _, _)
RowsAt(h, v, seq) ==
    IF seq = <<>> THEN <<>>
    ELSE <<h.data[v].cells[Head(seq)].bytes>> \o RowsAt(h, v, Tail(seq))

\* executes the statement num_iters times, once per element of the bound
\* arrays.  Every bound variable must have that many elements allocated.  In
\* the default mode the execution stops at the first row that fails; in batch
\* errors mode the failing rows are recorded and the other rows are done.
dpiStmt_executeMany(h, s, mode, num_iters, ub) ==
    IF Freed(h.stmts[s]) \/ \E v \in BoundVars(h, s) \ {NoVar} : Freed(h.vars[v])
    THEN Undefined(h, "dpiStmt_executeMany", ub)
    ELSE IF StmtCheck(h, s) # ""
         THEN Failed(h, "dpiStmt_executeMany", StmtCheck(h, s))
    ELSE IF h.stmts[s].cols > 0
         THEN Failed(h, "dpiStmt_executeMany", "not supported for queries")
    ELSE IF BoundVars(h, s) \ {NoVar} = {}
         THEN Failed(h, "dpiStmt_executeMany", "not all variables bound")
    ELSE IF \E v \in BoundVars(h, s) \ {NoVar} : h.data[v].size < num_iters
         THEN Failed(h, "dpiStmt_executeMany", "array size too small")
    ELSE LET bad  == BadRows(h, s, num_iters)
             v    == RowVar(h, s)
             done == IF mode = "BATCH_ERRORS" \/ bad = {}
                     THEN (0 .. (num_iters - 1)) \ bad
                     ELSE {i \in 0 .. (num_iters - 1) : \A b \in bad : i < b}
             h1   == [h EXCEPT !.table = @ \o RowsAt(h, v, Ascending(done)),
                               !.stmts[s].executed = TRUE,
                               !.batch[s] = IF mode = "BATCH_ERRORS"
                                            THEN Ascending(bad) ELSE NoBatch]
         IN IF mode = "BATCH_ERRORS" \/ bad = {}
            THEN Succeeded(h1, "dpiStmt_executeMany", 0)
            ELSE Failed(h1, "dpiStmt_executeMany", "row rejected")

\* the error record the library keeps for the row at offset i
BatchError(i) == [offset |-> i, code |-> "row rejected"]

RECURSIVE BatchErrors(_)
BatchErrors(seq) ==
    IF seq = <<>> THEN <<>> ELSE <<BatchError(Head(seq))>> \o BatchErrors(Tail(seq))

\* the number of batch errors of the last execution with batch mode enabled
dpiStmt_getBatchErrorCount(h, s, ub) ==
    IF Freed(h.stmts[s]) THEN Undefined(h, "dpiStmt_getBatchErrorCount", ub)
    ELSE Succeeded(h, "dpiStmt_getBatchErrorCount", Len(h.batch[s]))

\* copies the batch errors into the errors array of num_errors elements; out
\* is what the array holds afterwards.  Writing a record through a null
\* pointer is undefined.
dpiStmt_getBatchErrors(h, s, num_errors, errors, ub) ==
    IF Freed(h.stmts[s]) THEN Undefined(h, "dpiStmt_getBatchErrors", ub)
    ELSE IF num_errors < Len(h.batch[s])
         THEN Failed(h, "dpiStmt_getBatchErrors", "array size too small")
    ELSE IF h.batch[s] = <<>> THEN Succeeded(h, "dpiStmt_getBatchErrors", <<>>)
    ELSE IF errors.null THEN Undefined(h, "dpiStmt_getBatchErrors", ub)
    ELSE Succeeded(h, "dpiStmt_getBatchErrors", BatchErrors(h.batch[s]))

\* slice::from_raw_parts(ptr, n) on a null pointer is undefined: the process
\* dies, or the call yields n records of whatever is read
FromRawParts(ptr, n, out) ==
    IF ptr.null
    THEN {[res |-> "Crash", val |-> <<>>],
          [res |-> "Ok", val |-> [i \in 1 .. n |-> NoInfo]]}
    ELSE {[res |-> "Ok", val |-> out]}

\* ------------------------------------------------- native: bind names
\* the names of the unique bind variables of the statement text, as the
\* library reports them: "UN" for :username
StmtBindNames == <<<<85, 78>>>>

\* fills the first entries of the two arrays of num_bind_names elements with
\* the names and their lengths; an array that is too small is an error
dpiStmt_getBindNames(h, s, num_bind_names, names, lengths, ub) ==
    IF Freed(h.stmts[s]) THEN Undefined(h, "dpiStmt_getBindNames", ub)
    ELSE IF num_bind_names < Len(StmtBindNames)
         THEN Failed(h, "dpiStmt_getBindNames", "array size too small")
    ELSE Succeeded(h, "dpiStmt_getBindNames",
                   [names   |-> [i \in 1 .. Len(names) |->
                                   IF i <= Len(StmtBindNames)
                                   THEN Ptr(StmtBindNames[i]) ELSE names[i]],
                    lengths |-> [i \in 1 .. Len(lengths) |->
                                   IF i <= Len(StmtBindNames)
                                   THEN Len(StmtBindNames[i]) ELSE lengths[i]]])

\* String::from_utf8_lossy: a byte that is no UTF-8 becomes U+FFFD
InvalidByte == 255
ReplacementChar == 65533
Lossy(bytes) ==
    [i \in 1 .. Len(bytes) |->
        IF bytes[i] = InvalidByte THEN ReplacementChar ELSE bytes[i]]

\* impl From<ODPIStr> for String: "" for the null pointer, else the len bytes
\* at ptr, converted lossily
ODPIStr_into(ptr, len) ==
    IF ptr.null THEN <<>> ELSE Lossy(SubSeq(ptr.at, 1, len))

\* ------------------------------------- native: advanced queuing options
\* rc is what the library reports for reasons of its own (the server, the
\* network); a call that fails changes nothing
dpiEnqOptions_getVisibility(h, rc) ==
    IF rc = "DPI_SUCCESS"
    THEN Succeeded(h, "dpiEnqOptions_getVisibility", h.enq.visibility)
    ELSE Failed(h, "dpiEnqOptions_getVisibility", "call failed")

dpiEnqOptions_setVisibility(h, visibility, rc) ==
    IF rc = "DPI_SUCCESS"
    THEN Succeeded([h EXCEPT !.enq.visibility = visibility],
                   "dpiEnqOptions_setVisibility", 0)
    ELSE Failed(h, "dpiEnqOptions_setVisibility", "call failed")

\* the out value is the pointer to the correlation and its length
dpiMsgProps_getCorrelation(h, rc) ==
    IF rc = "DPI_SUCCESS"
    THEN Succeeded(h, "dpiMsgProps_getCorrelation",
                   [ptr |-> h.msg.correlation,
                    len |-> Len(h.msg.correlation.at)])
    ELSE Failed(h, "dpiMsgProps_getCorrelation", "call failed")

dpiMsgProps_setCorrelation(h, ptr, len, rc) ==
    IF rc = "DPI_SUCCESS"
    THEN Succeeded([h EXCEPT !.msg.correlation = Ptr(SubSeq(ptr.at, 1, len))],
                   "dpiMsgProps_setCorrelation", 0)
    ELSE Failed(h, "dpiMsgProps_setCorrelation", "call failed")

\* --------------------------------------------- native: collection objects
dpiObject_appendElement(h, data) ==
    Succeeded([h EXCEPT !.coll.elems[h.coll.len] = Element(data),
                        !.coll.len = @ + 1],
              "dpiObject_appendElement", 0)

\* the position ordinals of the remaining elements are not changed: the delete
\* creates a hole
dpiObject_deleteElementByIndex(h, index) ==
    IF index \notin Existing(h.coll)
    THEN Failed(h, "dpiObject_deleteElementByIndex", "no element at index")
    ELSE Succeeded([h EXCEPT !.coll.elems[index] = Hole],
                   "dpiObject_deleteElementByIndex", 0)

dpiObject_getElementExistsByIndex(h, index) ==
    Succeeded(h, "dpiObject_getElementExistsByIndex",
              IF index \in Existing(h.coll) THEN 1 ELSE 0)

dpiObject_getElementValueByIndex(h, index) ==
    IF index \notin Existing(h.coll)
    THEN Failed(h, "dpiObject_getElementValueByIndex", "no element at index")
    ELSE Succeeded(h, "dpiObject_getElementValueByIndex", h.coll.elems[index].data)

\* the out value of the index functions: the index found and whether one
\* exists; index is left as it was when none exists
Found(set, pick) ==
    IF set = {} THEN [idx |-> 0, exists |-> 0]
    ELSE [idx |-> pick, exists |-> 1]

Lowest(set)  == CHOOSE i \in set : \A j \in set : i <= j
Highest(set) == CHOOSE i \in set : \A j \in set : i >= j

dpiObject_getFirstIndex(h) ==
    Succeeded(h, "dpiObject_getFirstIndex",
              Found(Existing(h.coll), Lowest(Existing(h.coll))))

dpiObject_getLastIndex(h) ==
    Succeeded(h, "dpiObject_getLastIndex",
              Found(Existing(h.coll), Highest(Existing(h.coll))))

dpiObject_getNextIndex(h, index) ==
    LET after == {i \in Existing(h.coll) : i > index}
    IN Succeeded(h, "dpiObject_getNextIndex", Found(after, Lowest(after)))

dpiObject_getPrevIndex(h, index) ==
    LET before == {i \in Existing(h.coll) : i < index}
    IN Succeeded(h, "dpiObject_getPrevIndex", Found(before, Highest(before)))

\* trims a number of elements from the end of the collection
dpiObject_trim(h, numToTrim) ==
    IF numToTrim > h.coll.len THEN Failed(h, "dpiObject_trim", "too few elements")
    ELSE Succeeded([h EXCEPT !.coll.len = @ - numToTrim,
                             !.coll.elems = [i \in ElemIds |->
                                 IF i < h.coll.len - numToTrim THEN @[i] ELSE Hole]],
                   "dpiObject_trim", 0)

\* ------------------------------------------------------- native: LOBs
Fill(n, b) == IF n = 0 THEN <<>> ELSE <<[n |-> n, b |-> b]>>

RECURSIVE RunsSize(_)
RunsSize(runs) ==
    IF runs = <<>> THEN 0 ELSE Head(runs).n + RunsSize(Tail(runs))

\* the first k bytes of runs
RECURSIVE TakeRuns(_, _)
TakeRuns(runs, k) ==
    IF k <= 0 \/ runs = <<>> THEN <<>>
    ELSE IF Head(runs).n >= k THEN Fill(k, Head(runs).b)
    ELSE <<Head(runs)>> \o TakeRuns(Tail(runs), k - Head(runs).n)

\* runs without its first k bytes
RECURSIVE DropRuns(_, _)
DropRuns(runs, k) ==
    IF k <= 0 \/ runs = <<>> THEN runs
    ELSE IF Head(runs).n > k
         THEN <<[Head(runs) EXCEPT !.n = @ - k]>> \o Tail(runs)
    ELSE DropRuns(Tail(runs), k - Head(runs).n)

\* one content after the other
Join(a, c) ==
    IF a = <<>> THEN c
    ELSE IF c = <<>> THEN a
    ELSE IF a[Len(a)].b = Head(c).b
         THEN SubSeq(a, 1, Len(a) - 1)
              \o <<[n |-> a[Len(a)].n + Head(c).n, b |-> Head(c).b]>> \o Tail(c)
    ELSE a \o c

\* the byte at the 1-based offset p
RECURSIVE ByteAt(_, _)
ByteAt(runs, p) ==
    IF Head(runs).n >= p THEN Head(runs).b
    ELSE ByteAt(Tail(runs), p - Head(runs).n)

\* the bytes of runs, one by one
RECURSIVE Expand(_)
Expand(runs) ==
    IF runs = <<>> THEN <<>>
    ELSE <<Head(runs).b>> \o Expand(DropRuns(runs, 1))

dpiConn_newTempLob(h, ub) ==
    IF Freed(h.conn) THEN Undefined(h, "dpiConn_newTempLob", ub)
    ELSE IF ~h.conn.open THEN Failed(h, "dpiConn_newTempLob", "not connected")
    ELSE Succeeded([h EXCEPT !.lob = [made |-> TRUE, runs |-> <<>>]],
                   "dpiConn_newTempLob", 1)

\* writes valueLength bytes of value b at the 1-based offset
dpiLob_writeBytes(h, offset, b, valueLength) ==
    Succeeded([h EXCEPT !.lob.runs =
                  Join(Join(TakeRuns(@, offset - 1), Fill(valueLength, b)),
                       DropRuns(@, offset - 1 + valueLength))],
              "dpiLob_writeBytes", 0)

\* reads up to amount bytes from the 1-based offset on
dpiLob_readBytes(h, offset, amount) ==
    Succeeded(h, "dpiLob_readBytes",
              Expand(TakeRuns(DropRuns(h.lob.runs, offset - 1), amount)))

dpiLob_getSize(h) ==
    Succeeded(h, "dpiLob_getSize", RunsSize(h.lob.runs))

\* ----------------------------------- native: the names of a connection
Nul == 0

\* the bytes of a C string: those before the first NUL in memory
RECURSIVE UpToNul(_)
UpToNul(memory) ==
    IF memory = <<>> \/ Head(memory) = Nul THEN <<>>
    ELSE <<Head(memory)>> \o UpToNul(Tail(memory))

\* the library keeps the name as text of its own: the valueLength bytes at
\* value up to a NUL, and hands it out NUL-terminated with its length in bytes
NameKept(value, valueLength) ==
    Ptr(UpToNul(SubSeq(value.at, 1, valueLength)) \o <<Nul>>)

NameOut(name) ==
    [ptr |-> name, len |-> IF name.null THEN 0 ELSE Len(name.at) - 1]

dpiConn_setExternalName(h, value, valueLength, ub) ==
    IF Freed(h.conn) THEN Undefined(h, "dpiConn_setExternalName", ub)
    ELSE IF ~h.conn.open THEN Failed(h, "dpiConn_setExternalName", "not connected")
    ELSE Succeeded([h EXCEPT !.conn.external_name = NameKept(value, valueLength)],
                   "dpiConn_setExternalName", 0)

dpiConn_getExternalName(h, ub) ==
    IF Freed(h.conn) THEN Undefined(h, "dpiConn_getExternalName", ub)
    ELSE IF ~h.conn.open THEN Failed(h, "dpiConn_getExternalName", "not connected")
    ELSE Succeeded(h, "dpiConn_getExternalName", NameOut(h.conn.external_name))

dpiConn_setInternalName(h, value, valueLength, ub) ==
    IF Freed(h.conn) THEN Undefined(h, "dpiConn_setInternalName", ub)
    ELSE IF ~h.conn.open THEN Failed(h, "dpiConn_setInternalName", "not connected")
    ELSE Succeeded([h EXCEPT !.conn.internal_name = NameKept(value, valueLength)],
                   "dpiConn_setInternalName", 0)

dpiConn_getInternalName(h, ub) ==
    IF Freed(h.conn) THEN Undefined(h, "dpiConn_getInternalName", ub)
    ELSE IF ~h.conn.open THEN Failed(h, "dpiConn_getInternalName", "not connected")
    ELSE Succeeded(h, "dpiConn_getInternalName", NameOut(h.conn.internal_name))

\* ----------------------------------------------- native: the contexts
\* rc is what the library makes of the call: creating and destroying a context
\* can fail for reasons outside the program
dpiContext_create(h, c, rc) ==
    IF rc = "DPI_SUCCESS"
    THEN Succeeded([h EXCEPT !.ctxts[c].made = TRUE], "dpiContext_create", c)
    ELSE Failed(h, "dpiContext_create", "cannot load library")

\* every call is counted, the ones that fail too
dpiContext_destroy(h, c, rc) ==
    LET called == [h EXCEPT !.ctxts[c].destroys = @ + 1]
    IN IF rc = "DPI_SUCCESS"
       THEN Succeeded([called EXCEPT !.ctxts[c].made = FALSE], "dpiContext_destroy", 0)
       ELSE Failed(called, "dpiContext_destroy", "cannot destroy")

\* ------------------------------------------------------------ the wrapper
\* try_dpi!(call, ok, err): ok when the call returned DPI_SUCCESS, else Err(err)
try_dpi(rc, ok, err) ==
    IF rc = "DPI_SUCCESS" THEN [res |-> "Ok", val |-> ok, err |-> NoErr]
    ELSE [res |-> "Err", val |-> 0, err |-> err]

\* references the application holds on a native object: the one of its creation,
\* plus those add_ref gave it, minus those release gave up; none on a freed object
Held(obj, x) ==
    CASE obj = "Connection" -> app.conn
      [] obj = "Statement"  -> app.stmt[x].held
      [] obj = "Var"        -> app.var[x]
      [] OTHER              -> 0

IsFreed(obj, x) ==
    CASE obj = "Connection" -> Freed(heap.conn)
      [] obj = "Statement"  -> Freed(heap.stmts[x])
      [] obj = "Var"        -> Freed(heap.vars[x])
      [] OTHER              -> FALSE

\* the record of a wrapper call on handle x of kind obj: t is what the wrapper
\* returned, r what the native call did.  held and freed are the handle's state
\* when the call was made, passed says that the wrapper handed its pointer to
\* the native library, info is the native error of the call, args the arguments
\* and old the variable a bind found at the placeholder
Call(op, obj, x, t, r) ==
    [op |-> op, obj |-> obj, h |-> x, res |-> t.res, err |-> t.err, val |-> t.val,
     held |-> Held(obj, x), freed |-> IsFreed(obj, x), info |-> r.err,
     want |-> NoInfo, afterFail |-> FALSE, args |-> <<>>, passed |-> TRUE,
     old |-> NoVar]

Init ==
    /\ heap = [conn  |-> [refs |-> 1, open |-> TRUE,
                         external_name |-> NullPtr, internal_name |-> NullPtr],
               stmts |-> [s \in StmtIds |-> NewStmt],
               vars  |-> [v \in VarIds |-> NewVarObj],
               binds |-> [s \in StmtIds |-> NoBinds],
               data  |-> [v \in VarIds |-> NoData],
               batch |-> [s \in StmtIds |-> NoBatch],
               table |-> <<>>,
               returning |-> [s \in StmtIds |-> FALSE],
               txn   |-> NoTxn,
               enq   |-> [visibility |-> "OnCommit"],
               msg   |-> [correlation |-> NullPtr],
               coll  |-> NoElements,
               lob   |-> NoLob,
               ctxts |-> [c \in CtxIds |-> NoCtx],
               log   |-> <<>>,
               cell  |-> DefaultData,
               objtype |-> NoObjType,
               object |-> NoHandleObj,
               subscr |-> NoHandleObj]
    /\ errSlot = NoInfo
    /\ ret = [op |-> "create", obj |-> "Context", h |-> 0, res |-> "Ok",
              err |-> NoErr, val |-> 0, held |-> 1, freed |-> FALSE,
              info |-> NoInfo, want |-> NoInfo, afterFail |-> FALSE,
              args |-> <<>>, passed |-> TRUE, old |-> NoVar]
    /\ app = [conn |-> 1, connClosed |-> FALSE,
              stmt |-> [s \in StmtIds |-> [held |-> 0, closed |-> FALSE, asked |-> FALSE]],
              var  |-> [v \in VarIds |-> 0],
              thread |-> [t \in Threads |-> NotStarted],
              walk |-> NoWalk,
              ctxt |-> [c \in CtxIds |-> NoContext],
              attrs |-> <<>>,
              wrappers |-> [k \in WrapperKinds |-> 0]]

\* ---- Connection (mimir/src/connection/mod.rs)
Connection_add_ref ==
    /\ app.conn < MaxRefs
    /\ \E ub \in Status :
         LET r == dpiConn_addRef(heap, ub)
             t == try_dpi(r.rc, 0, ErrorKind("Connection", "dpiConn_addRef"))
         IN /\ heap' = r.heap
            /\ errSlot' = r.err
            /\ ret' = Call("add_ref", "Connection", 0, t, r)
            /\ app' = IF t.res = "Ok" /\ ~Freed(heap.conn)
                      THEN [app EXCEPT !.conn = @ + 1] ELSE app

Connection_release ==
    \E ub \in Status :
       LET r == dpiConn_release(heap, ub)
           t == try_dpi(r.rc, 0, ErrorKind("Connection", "dpiConn_release"))
       IN /\ heap' = r.heap
          /\ errSlot' = r.err
          /\ ret' = Call("release", "Connection", 0, t, r)
          /\ app' = IF t.res = "Ok" THEN [app EXCEPT !.conn = Minus(@, 1)]
                          ELSE app

Connection_close ==
    \E ub \in Status :
       LET r == dpiConn_close(heap, ub)
           t == try_dpi(r.rc, 0, ErrorKind("Connection", "dpiConn_close"))
       IN /\ heap' = r.heap
          /\ errSlot' = r.err
          /\ ret' = Call("close", "Connection", 0, t, r)
          /\ app' = IF t.res = "Ok" THEN [app EXCEPT !.connClosed = TRUE] ELSE app

\* the maximum length permitted for a transaction id and for a branch id
MaxIdLen == 64

\* what begin_distrib_trans returns when it refuses an id: no native call is made
Refused(kind, args) ==
    [op |-> "begin_distrib_trans", obj |-> "Connection", h |-> 0, res |-> "Err",
     err |-> ErrorKind(kind, ""), val |-> 0, held |-> app.conn,
     freed |-> Freed(heap.conn), info |-> errSlot, want |-> NoInfo,
     afterFail |-> FALSE, args |-> args, passed |-> FALSE, old |-> NoVar]

\* begin_distrib_trans that looks at the branch id first
Connection_begin_distrib_trans_branch_first(format_id, txn_id, branch_id) ==
    IF branch_id > MaxIdLen
    THEN /\ ret' = Refused("BranchId", <<format_id, txn_id, branch_id>>)
         /\ UNCHANGED <<heap, errSlot, app>>
    ELSE IF txn_id > MaxIdLen
    THEN /\ ret' = Refused("TxnId", <<format_id, txn_id, branch_id>>)
         /\ UNCHANGED <<heap, errSlot, app>>
    ELSE \E ub \in Status :
            LET r == dpiConn_beginDistribTrans(heap, format_id, txn_id, branch_id, ub)
                t == try_dpi(r.rc, 0,
                             ErrorKind("Connection", "dpiConn_beginDistribTrans"))
            IN /\ heap' = r.heap
               /\ errSlot' = r.err
               /\ ret' = [Call("begin_distrib_trans", "Connection", 0, t, r)
                            EXCEPT !.args = <<format_id, txn_id, branch_id>>]
               /\ app' = app

\* txn_id and branch_id are the lengths of the two byte strings
Connection_begin_distrib_trans(format_id, txn_id, branch_id) ==
    IF txn_id > MaxIdLen
    THEN /\ ret' = Refused("TxnId", <<format_id, txn_id, branch_id>>)
         /\ UNCHANGED <<heap, errSlot, app>>
    ELSE IF branch_id > MaxIdLen
    THEN /\ ret' = Refused("BranchId", <<format_id, txn_id, branch_id>>)
         /\ UNCHANGED <<heap, errSlot, app>>
    ELSE \E ub \in Status :
            LET r == dpiConn_beginDistribTrans(heap, format_id, txn_id, branch_id, ub)
                t == try_dpi(r.rc, 0,
                             ErrorKind("Connection", "dpiConn_beginDistribTrans"))
            IN /\ heap' = r.heap
               /\ errSlot' = r.err
               /\ ret' = [Call("begin_distrib_trans", "Connection", 0, t, r)
                            EXCEPT !.args = <<format_id, txn_id, branch_id>>]
               /\ app' = app

\* let scroll_i = if scrollable { 0 } else { 1 };
scroll_i(scrollable) == IF scrollable THEN 0 ELSE 1

Connection_prepare_stmt(sql, tag, scrollable) ==
    /\ FreeStmtIds(heap) # {}
    /\ \E cols \in 0 .. MaxCols, ub \in Status :
         LET r == dpiConn_prepareStmt(heap, scroll_i(scrollable), sql, tag, cols, ub)
             t == try_dpi(r.rc, r.out, ErrorKind("Connection", "dpiConn_prepareStmt"))
         IN /\ heap' = r.heap
            /\ errSlot' = r.err
            /\ ret' = [Call("prepare_stmt", "Connection", 0, t, r)
                         EXCEPT !.args = <<sql, tag, scrollable>>]
            /\ app' = IF t.res = "Ok" /\ t.val # 0
                            THEN [app EXCEPT !.stmt[t.val] =
                                    [held |-> 1, closed |-> FALSE, asked |-> scrollable]]
                            ELSE app

Connection_new_var(max_array_size, size) ==
    /\ FreeVarIds(heap) # {}
    /\ \E ub \in Status :
         LET r == dpiConn_newVar(heap, max_array_size, size, ub)
             t == try_dpi(r.rc, r.out, ErrorKind("Connection", "dpiConn_newVar"))
         IN /\ heap' = r.heap
            /\ errSlot' = r.err
            /\ ret' = [Call("new_var", "Connection", 0, t, r)
                         EXCEPT !.args = <<max_array_size, size>>]
            /\ app' = IF t.res = "Ok" /\ t.val # 0
                            THEN [app EXCEPT !.var[t.val] = 1] ELSE app

\* ---- Var (src/variable/mod.rs)
Var_add_ref(v) ==
    /\ heap.vars[v].made
    /\ app.var[v] < MaxRefs
    /\ \E ub \in Status :
         LET r == dpiVar_addRef(heap, v, ub)
             t == try_dpi(r.rc, 0, ErrorKind("Var", "dpiVar_addRef"))
         IN /\ heap' = r.heap
            /\ errSlot' = r.err
            /\ ret' = Call("add_ref", "Var", v, t, r)
            /\ app' = IF t.res = "Ok" /\ ~Freed(heap.vars[v])
                      THEN [app EXCEPT !.var[v] = @ + 1] ELSE app

Var_release(v) ==
    /\ heap.vars[v].made
    /\ \E ub \in Status :
         LET r == dpiVar_release(heap, v, ub)
             t == try_dpi(r.rc, 0, ErrorKind("Var", "dpiVar_release"))
         IN /\ heap' = r.heap
            /\ errSlot' = r.err
            /\ ret' = Call("release", "Var", v, t, r)
            /\ app' = IF t.res = "Ok" THEN [app EXCEPT !.var[v] = Minus(@, 1)]
                            ELSE app

\* ---- Statement (src/statement/mod.rs)
Statement_add_ref(s) ==
    /\ heap.stmts[s].made
    /\ app.stmt[s].held < MaxRefs
    /\ \E ub \in Status :
         LET r == dpiStmt_addRef(heap, s, ub)
             t == try_dpi(r.rc, 0, ErrorKind("Statement", "dpiStmt_addRef"))
         IN /\ heap' = r.heap
            /\ errSlot' = r.err
            /\ ret' = Call("add_ref", "Statement", s, t, r)
            /\ app' = IF t.res = "Ok" /\ ~Freed(heap.stmts[s])
                      THEN [app EXCEPT !.stmt[s].held = @ + 1] ELSE app

Statement_release(s) ==
    /\ heap.stmts[s].made
    /\ \E ub \in Status :
         LET r == dpiStmt_release(heap, s, ub)
             t == try_dpi(r.rc, 0, ErrorKind("Statement", "dpiStmt_release"))
         IN /\ heap' = r.heap
            /\ errSlot' = r.err
            /\ ret' = Call("release", "Statement", s, t, r)
            /\ app' = IF t.res = "Ok" THEN [app EXCEPT !.stmt[s].held = Minus(@, 1)]
                            ELSE app

\* close written with the release call: it gives up a reference as well
Statement_close_releasing(s) ==
    /\ heap.stmts[s].made
    /\ \E ub \in Status :
         LET r == dpiStmt_release(heap, s, ub)
             t == try_dpi(r.rc, 0, ErrorKind("Statement", "dpiStmt_close"))
         IN /\ heap' = r.heap
            /\ errSlot' = r.err
            /\ ret' = Call("close", "Statement", s, t, r)
            /\ app' = IF t.res = "Ok" THEN [app EXCEPT !.stmt[s].closed = TRUE]
                            ELSE app

Statement_close(s) ==
    /\ heap.stmts[s].made
    /\ \E ub \in Status :
         LET r == dpiStmt_close(heap, s, ub)
             t == try_dpi(r.rc, 0, ErrorKind("Statement", "dpiStmt_close"))
         IN /\ heap' = r.heap
            /\ errSlot' = r.err
            /\ ret' = Call("close", "Statement", s, t, r)
            /\ app' = IF t.res = "Ok" THEN [app EXCEPT !.stmt[s].closed = TRUE]
                            ELSE app

\* bind_by_name written with the by-position call: it binds position 1
Statement_bind_by_name_as_first_pos(s, name, v) ==
    /\ heap.stmts[s].made
    /\ heap.vars[v].made
    /\ \E ub \in Status :
         LET r == dpiStmt_bindByPos(heap, s, 1, v, ub)
             t == try_dpi(r.rc, 0, ErrorKind("Statement", "dpiStmt_bindByName"))
         IN /\ heap' = r.heap
            /\ errSlot' = r.err
            /\ ret' = [Call("bind_by_name", "Statement", s, t, r) EXCEPT !.args = <<name, v>>,
                         !.old = IF name \in BindNames THEN heap.binds[s].name[name]
                                 ELSE NoVar]
            /\ app' = app

Statement_bind_by_name(s, name, v) ==
    /\ heap.stmts[s].made
    /\ heap.vars[v].made
    /\ \E ub \in Status :
         LET r == dpiStmt_bindByName(heap, s, name, v, ub)
             t == try_dpi(r.rc, 0, ErrorKind("Statement", "dpiStmt_bindByName"))
         IN /\ heap' = r.heap
            /\ errSlot' = r.err
            /\ ret' = [Call("bind_by_name", "Statement", s, t, r) EXCEPT !.args = <<name, v>>,
                         !.old = IF name \in BindNames THEN heap.binds[s].name[name]
                                 ELSE NoVar]
            /\ app' = app

\* bind_by_pos giving the variable's reference away once it is bound
Statement_bind_by_pos_giving_up_var(s, pos, v) ==
    /\ heap.stmts[s].made
    /\ heap.vars[v].made
    /\ \E ub \in Status :
         LET b == dpiStmt_bindByPos(heap, s, pos, v, ub)
             r == IF b.rc = "DPI_SUCCESS"
                  THEN [dpiVar_release(b.heap, v, ub) EXCEPT !.rc = b.rc, !.err = b.err]
                  ELSE b
             t == try_dpi(r.rc, 0, ErrorKind("Statement", "dpiStmt_bindByPos"))
         IN /\ heap' = r.heap
            /\ errSlot' = r.err
            /\ ret' = [Call("bind_by_pos", "Statement", s, t, r) EXCEPT !.args = <<pos, v>>,
                         !.old = IF pos \in BindPositions THEN heap.binds[s].pos[pos]
                                 ELSE NoVar]
            /\ app' = app

Statement_bind_by_pos(s, pos, v) ==
    /\ heap.stmts[s].made
    /\ heap.vars[v].made
    /\ \E ub \in Status :
         LET r == dpiStmt_bindByPos(heap, s, pos, v, ub)
             t == try_dpi(r.rc, 0, ErrorKind("Statement", "dpiStmt_bindByPos"))
         IN /\ heap' = r.heap
            /\ errSlot' = r.err
            /\ ret' = [Call("bind_by_pos", "Statement", s, t, r) EXCEPT !.args = <<pos, v>>,
                         !.old = IF pos \in BindPositions THEN heap.binds[s].pos[pos]
                                 ELSE NoVar]
            /\ app' = app

\* execute that never hands cols_queried to the native call: it stays 0
Statement_execute_cols_unset(s) ==
    /\ heap.stmts[s].made
    /\ \E ub \in Status :
         LET r == dpiStmt_execute(heap, s, ub)
             t == try_dpi(r.rc, 0, ErrorKind("Statement", "dpiStmt_execute"))
         IN /\ heap' = r.heap
            /\ errSlot' = r.err
            /\ ret' = Call("execute", "Statement", s, t, r)
            /\ app' = app

\* let mut cols_queried = 0; ... Ok(cols_queried)
Statement_execute(s) ==
    /\ heap.stmts[s].made
    /\ \E ub \in Status :
         LET r == dpiStmt_execute(heap, s, ub)
             t == try_dpi(r.rc, r.out, ErrorKind("Statement", "dpiStmt_execute"))
         IN /\ heap' = r.heap
            /\ errSlot' = r.err
            /\ ret' = Call("execute", "Statement", s, t, r)
            /\ app' = app

\* fetch that does not look at the native return code
Statement_fetch_unchecked(s) ==
    /\ heap.stmts[s].made
    /\ \E ub \in Status :
         LET r == dpiStmt_fetch(heap, s, ub)
             t == try_dpi("DPI_SUCCESS", 0, ErrorKind("Statement", "dpiStmt_fetch"))
         IN /\ heap' = r.heap
            /\ errSlot' = r.err
            /\ ret' = Call("fetch", "Statement", s, t, r)
            /\ app' = app

Statement_fetch(s) ==
    /\ heap.stmts[s].made
    /\ \E ub \in Status :
         LET r == dpiStmt_fetch(heap, s, ub)
             t == try_dpi(r.rc, 0, ErrorKind("Statement", "dpiStmt_fetch"))
         IN /\ heap' = r.heap
            /\ errSlot' = r.err
            /\ ret' = Call("fetch", "Statement", s, t, r)
            /\ app' = app

Statement_fetch_rows(s) ==
    /\ heap.stmts[s].made
    /\ \E ub \in Status :
         LET r == dpiStmt_fetchRows(heap, s, ub)
             t == try_dpi(r.rc, 0, ErrorKind("Statement", "dpiStmt_fetchRows"))
         IN /\ heap' = r.heap
            /\ errSlot' = r.err
            /\ ret' = Call("fetch_rows", "Statement", s, t, r)
            /\ app' = app

Statement_scroll(s) ==
    /\ heap.stmts[s].made
    /\ \E ub \in Status :
         LET r == dpiStmt_scroll(heap, s, ub)
             t == try_dpi(r.rc, 0, ErrorKind("Statement", "dpiStmt_scroll"))
         IN /\ heap' = r.heap
            /\ errSlot' = r.err
            /\ ret' = Call("scroll", "Statement", s, t, r)
            /\ app' = app

\* ---- Var buffers (src/variable/mod.rs)
Var_set_from_bytes(v, pos, value) ==
    /\ heap.vars[v].made
    /\ \E ub \in Status :
         LET r == dpiVar_setFromBytes(heap, v, pos, value, ub)
             t == try_dpi(r.rc, 0, ErrorKind("Var", "dpiVar_setFromBytes"))
         IN /\ heap' = r.heap
            /\ errSlot' = r.err
            /\ ret' = [Call("set_from_bytes", "Var", v, t, r) EXCEPT
                         !.args = <<pos, value>>]
            /\ app' = app

\* get_data that takes a single element for none
Var_get_data_one_is_none(v) ==
    /\ heap.vars[v].made
    /\ \E ub \in Status :
         LET r == dpiVar_getData(heap, v, ub)
             t == IF r.rc = "DPI_SUCCESS"
                  THEN [res |-> "Ok",
                        val |-> IF r.out.data_arr_ptr.null \/ r.out.num_elements <= 1
                                THEN <<>>
                                ELSE [i \in 1 .. r.out.num_elements |->
                                        r.out.data_arr_ptr.at[i - 1]],
                        err |-> NoErr]
                  ELSE try_dpi(r.rc, 0, ErrorKind("Var", "dpiVar_getData"))
         IN /\ heap' = r.heap
            /\ errSlot' = r.err
            /\ ret' = Call("get_data", "Var", v, t, r)
            /\ app' = app

\* Ok(&mut []) for a null array or no elements, else the slice of
\* num_elements elements at data_arr_ptr
Var_get_data(v) ==
    /\ heap.vars[v].made
    /\ \E ub \in Status :
         LET r == dpiVar_getData(heap, v, ub)
             t == IF r.rc = "DPI_SUCCESS"
                  THEN [res |-> "Ok",
                        val |-> IF r.out.data_arr_ptr.null \/ r.out.num_elements = 0
                                THEN <<>>
                                ELSE [i \in 1 .. r.out.num_elements |->
                                        r.out.data_arr_ptr.at[i - 1]],
                        err |-> NoErr]
                  ELSE try_dpi(r.rc, 0, ErrorKind("Var", "dpiVar_getData"))
         IN /\ heap' = r.heap
            /\ errSlot' = r.err
            /\ ret' = Call("get_data", "Var", v, t, r)
            /\ app' = app

\* copy_data that always copies into the first element of dst
Var_copy_data_to_first(v, src_pos, dst, dst_pos) ==
    /\ heap.vars[v].made
    /\ heap.vars[dst].made
    /\ \E ub \in Status :
         LET r == dpiVar_copyData(heap, dst, 0, v, src_pos, ub)
             t == try_dpi(r.rc, 0, ErrorKind("Var", "dpiVar_copyData"))
         IN /\ heap' = r.heap
            /\ errSlot' = r.err
            /\ ret' = [Call("copy_data", "Var", v, t, r) EXCEPT
                         !.args = <<src_pos, dst, dst_pos>>]
            /\ app' = app

Var_copy_data(v, src_pos, dst, dst_pos) ==
    /\ heap.vars[v].made
    /\ heap.vars[dst].made
    /\ \E ub \in Status :
         LET r == dpiVar_copyData(heap, dst, dst_pos, v, src_pos, ub)
             t == try_dpi(r.rc, 0, ErrorKind("Var", "dpiVar_copyData"))
         IN /\ heap' = r.heap
            /\ errSlot' = r.err
            /\ ret' = [Call("copy_data", "Var", v, t, r) EXCEPT
                         !.args = <<src_pos, dst, dst_pos>>]
            /\ app' = app

Var_set_from_lob(v, pos) ==
    /\ heap.vars[v].made
    /\ \E ub \in Status :
         LET r == dpiVar_setFromLob(heap, v, pos, ub)
             t == try_dpi(r.rc, 0, ErrorKind("Var", "dpiVar_setFromLob"))
         IN /\ heap' = r.heap
            /\ errSlot' = r.err
            /\ ret' = [Call("set_from_lob", "Var", v, t, r) EXCEPT !.args = <<pos>>]
            /\ app' = app

Var_set_from_object(v, pos) ==
    /\ heap.vars[v].made
    /\ \E ub \in Status :
         LET r == dpiVar_setFromObject(heap, v, pos, ub)
             t == try_dpi(r.rc, 0, ErrorKind("Var", "dpiVar_setFromObject"))
         IN /\ heap' = r.heap
            /\ errSlot' = r.err
            /\ ret' = [Call("set_from_object", "Var", v, t, r) EXCEPT !.args = <<pos>>]
            /\ app' = app

Var_set_from_rowid(v, pos) ==
    /\ heap.vars[v].made
    /\ \E ub \in Status :
         LET r == dpiVar_setFromRowid(heap, v, pos, ub)
             t == try_dpi(r.rc, 0, ErrorKind("Var", "dpiVar_setFromRowid"))
         IN /\ heap' = r.heap
            /\ errSlot' = r.err
            /\ ret' = [Call("set_from_rowid", "Var", v, t, r) EXCEPT !.args = <<pos>>]
            /\ app' = app

Var_set_from_stmt(v, pos) ==
    /\ heap.vars[v].made
    /\ \E ub \in Status :
         LET r == dpiVar_setFromStmt(heap, v, pos, ub)
             t == try_dpi(r.rc, 0, ErrorKind("Var", "dpiVar_setFromStmt"))
         IN /\ heap' = r.heap
            /\ errSlot' = r.err
            /\ ret' = [Call("set_from_stmt", "Var", v, t, r) EXCEPT !.args = <<pos>>]
            /\ app' = app

\* ---- Data (mimir/src/data/mod.rs): the element pos of variable v, as
\* get_data hands it out
\* the ODPIBytes of the element is read into an ODPIStr and turned into a String
Data_get_string(v, pos) ==
    /\ heap.vars[v].made
    /\ ~Freed(heap.vars[v])
    /\ pos < heap.data[v].size
    /\ LET odpi_bytes == heap.data[v].cells[pos].bytes
       IN ret' = [op |-> "get_string", obj |-> "Data", h |-> v, res |-> "Ok",
                  err |-> NoErr,
                  val |-> ODPIStr_into(Ptr(odpi_bytes), Len(odpi_bytes)),
                  held |-> app.var[v], freed |-> FALSE, info |-> errSlot,
                  want |-> NoInfo, afterFail |-> FALSE, args |-> <<pos>>,
                  passed |-> FALSE, old |-> NoVar]
    /\ UNCHANGED <<heap, errSlot, app>>

\* let mut bytes = unsafe { (*self.inner).value.as_bytes }; copies the ODPIBytes
\* of the element; ptr and length are set in the copy, which is dropped
Data_set_string(v, pos, val) ==
    /\ heap.vars[v].made
    /\ ~Freed(heap.vars[v])
    /\ pos < heap.data[v].size
    /\ LET bytes == [heap.data[v].cells[pos] EXCEPT !.bytes = val]
       IN ret' = [op |-> "set_string", obj |-> "Data", h |-> v, res |-> "Ok",
                  err |-> NoErr, val |-> 0,
                  held |-> app.var[v], freed |-> FALSE, info |-> errSlot,
                  want |-> NoInfo, afterFail |-> FALSE, args |-> <<pos, val>>,
                  passed |-> FALSE, old |-> NoVar]
    /\ UNCHANGED <<heap, errSlot, app>>

\* ---- Statement, array execution (src/statement/mod.rs)
\* execute_many that leaves the last iteration out
Statement_execute_many_one_short(s, mode, num_iters) ==
    /\ heap.stmts[s].made
    /\ Len(heap.table) + num_iters <= MaxRows
    /\ \E ub \in Status :
         LET r == dpiStmt_executeMany(heap, s, mode, num_iters - 1, ub)
             t == try_dpi(r.rc, 0, ErrorKind("Statement", "dpiStmt_executeMany"))
         IN /\ heap' = r.heap
            /\ errSlot' = r.err
            /\ ret' = [Call("execute_many", "Statement", s, t, r) EXCEPT
                         !.args = <<mode, num_iters>>]
            /\ app' = app

Statement_execute_many(s, mode, num_iters) ==
    /\ heap.stmts[s].made
    /\ Len(heap.table) + num_iters <= MaxRows
    /\ \E ub \in Status :
         LET r == dpiStmt_executeMany(heap, s, mode, num_iters, ub)
             t == try_dpi(r.rc, 0, ErrorKind("Statement", "dpiStmt_executeMany"))
         IN /\ heap' = r.heap
            /\ errSlot' = r.err
            /\ ret' = [Call("execute_many", "Statement", s, t, r) EXCEPT
                         !.args = <<mode, num_iters>>]
            /\ app' = app

Statement_get_batch_error_count(s) ==
    /\ heap.stmts[s].made
    /\ \E ub \in Status :
         LET r == dpiStmt_getBatchErrorCount(heap, s, ub)
             t == try_dpi(r.rc, r.out, ErrorKind("Statement", "dpiStmt_getBatchErrorCount"))
         IN /\ heap' = r.heap
            /\ errSlot' = r.err
            /\ ret' = Call("get_batch_error_count", "Statement", s, t, r)
            /\ app' = app

\* let err_ptr = ptr::null_mut(); the native call gets the null pointer and
\* the Ok arm reads num_errors records from it
Statement_get_batch_errors(s, num_errors) ==
    /\ heap.stmts[s].made
    /\ \E ub \in Status :
         LET err_ptr == NullPtr
             r == dpiStmt_getBatchErrors(heap, s, num_errors, err_ptr, ub)
         IN \E rd \in FromRawParts(err_ptr, num_errors, r.out) :
              LET t == IF r.rc = "DPI_SUCCESS"
                       THEN [res |-> rd.res, val |-> rd.val, err |-> NoErr]
                       ELSE try_dpi(r.rc, 0,
                                    ErrorKind("Statement", "dpiStmt_getBatchErrors"))
              IN /\ heap' = r.heap
                 /\ errSlot' = r.err
                 /\ ret' = [Call("get_batch_errors", "Statement", s, t, r) EXCEPT
                              !.args = <<num_errors>>]
                 /\ app' = app

\* get_bind_names that returns an error when the library reports fewer names
\* than asked for
Statement_get_bind_names_exact(s, num_bind_names) ==
    /\ heap.stmts[s].made
    /\ \E ub \in Status :
         LET names_vec     == [i \in 1 .. num_bind_names |-> NullPtr]
             names_len_vec == [i \in 1 .. num_bind_names |-> 0]
             r == dpiStmt_getBindNames(heap, s, num_bind_names, names_vec,
                                       names_len_vec, ub)
             t == IF r.rc = "DPI_SUCCESS"
                     /\ \A i \in 1 .. num_bind_names : ~r.out.names[i].null
                  THEN [res |-> "Ok",
                        val |-> [i \in 1 .. num_bind_names |->
                                   ODPIStr_into(r.out.names[i], r.out.lengths[i])],
                        err |-> NoErr]
                  ELSE [res |-> "Err", val |-> 0,
                        err |-> ErrorKind("Statement", "dpiStmt_getBindNames")]
         IN /\ heap' = r.heap
            /\ errSlot' = r.err
            /\ ret' = [Call("get_bind_names", "Statement", s, t, r) EXCEPT
                         !.args = <<num_bind_names>>]
            /\ app' = app

\* both vectors are filled with num_bind_names entries (null, 0); the Ok arm
\* turns every pair of the two vectors into a String
Statement_get_bind_names(s, num_bind_names) ==
    /\ heap.stmts[s].made
    /\ \E ub \in Status :
         LET names_vec     == [i \in 1 .. num_bind_names |-> NullPtr]
             names_len_vec == [i \in 1 .. num_bind_names |-> 0]
             r == dpiStmt_getBindNames(heap, s, num_bind_names, names_vec,
                                       names_len_vec, ub)
             t == IF r.rc = "DPI_SUCCESS"
                  THEN IF Len(r.out.names) = Len(r.out.lengths)
                       THEN [res |-> "Ok",
                             val |-> [i \in 1 .. Len(r.out.names) |->
                                        ODPIStr_into(r.out.names[i], r.out.lengths[i])],
                             err |-> NoErr]
                       ELSE [res |-> "Err", val |-> 0,
                             err |-> ErrorKind("Statement", "")]
                  ELSE try_dpi(r.rc, 0, ErrorKind("Statement", "dpiStmt_getBindNames"))
         IN /\ heap' = r.heap
            /\ errSlot' = r.err
            /\ ret' = [Call("get_bind_names", "Statement", s, t, r) EXCEPT
                         !.args = <<num_bind_names>>]
            /\ app' = app

\* ---- Context (mimir/src/context/mod.rs)
\* try_error!(logger, msg) and try_info!(logger, msg): a line for the logger,
\* if there is one
try_error(logger, msg, log) ==
    IF logger = None THEN log ELSE Append(log, <<"error", msg>>)

try_info(logger, msg, log) ==
    IF logger = None THEN log ELSE Append(log, <<"info", msg>>)

\* what drop leaves behind: nothing is returned and the value is gone
Dropped(c, r) ==
    /\ errSlot' = r.err
    /\ ret' = [op |-> "drop", obj |-> "Context", h |-> c, res |-> "Ok",
               err |-> NoErr, val |-> 0, held |-> 0, freed |-> FALSE,
               info |-> r.err, want |-> NoInfo, afterFail |-> FALSE,
               args |-> <<>>, passed |-> TRUE, old |-> NoVar]
    /\ app' = [app EXCEPT !.ctxt[c].state = "dropped"]

Context_create(c) ==
    /\ app.ctxt[c].state = "none"
    /\ \E rc \in Status :
          LET r == dpiContext_create(heap, c, rc)
              t == try_dpi(r.rc, r.out, ErrorKind("Context", "dpiContext_create"))
          IN /\ heap' = r.heap
             /\ errSlot' = r.err
             /\ ret' = [Call("create", "Context", c, t, r) EXCEPT !.held = 0]
             /\ app' = IF t.res = "Ok"
                       THEN [app EXCEPT !.ctxt[c] =
                               [state |-> "owned", stdout |-> None, stderr |-> None]]
                       ELSE app

\* drop that tries once more when the library could not destroy the context
Context_drop_again(c) ==
    /\ app.ctxt[c].state = "owned"
    /\ \E rc \in Status, again \in Status :
          LET r == dpiContext_destroy(heap, c, rc)
              s == IF r.rc = "DPI_FAILURE" THEN dpiContext_destroy(r.heap, c, again) ELSE r
          IN /\ heap' = [s.heap EXCEPT !.log =
                           IF s.rc = "DPI_FAILURE"
                           THEN try_error(app.ctxt[c].stderr, "Failed to destroy context", @)
                           ELSE try_info(app.ctxt[c].stdout, "Successfully destroyed context", @)]
             /\ Dropped(c, s)

Context_drop(c) ==
    /\ app.ctxt[c].state = "owned"
    /\ \E rc \in Status :
          LET r == dpiContext_destroy(heap, c, rc)
          IN /\ heap' = [r.heap EXCEPT !.log =
                           IF r.rc = "DPI_FAILURE"
                           THEN try_error(app.ctxt[c].stderr, "Failed to destroy context", @)
                           ELSE try_info(app.ctxt[c].stdout, "Successfully destroyed context", @)]
             /\ Dropped(c, r)

\* copies the thread's last error out; it is the one call that does not clear it
dpiContext_getError(slot) == slot

\* get_error returning the default ErrorInfo without asking the library
Context_get_error_default ==
    /\ ret' = [op |-> "get_error", obj |-> "Context", h |-> 0, res |-> "Ok",
               err |-> NoErr, val |-> 0, held |-> 1, freed |-> FALSE,
               info |-> NoInfo, want |-> ret.info,
               afterFail |-> (ret.res = "Err"), args |-> <<>>, passed |-> FALSE,
               old |-> NoVar]
    /\ UNCHANGED <<heap, errSlot, app>>

Context_get_error ==
    /\ ret' = [op |-> "get_error", obj |-> "Context", h |-> 0, res |-> "Ok",
               err |-> NoErr, val |-> 0, held |-> 1, freed |-> FALSE,
               info |-> dpiContext_getError(errSlot), want |-> ret.info,
               afterFail |-> (ret.res = "Err"), args |-> <<>>, passed |-> FALSE,
               old |-> NoVar]
    /\ UNCHANGED <<heap, errSlot, app>>

\* the application working with handles: reference counts, close, the statement
\* life cycle and the error side channel
Next ==
    \/ Connection_add_ref
    \/ Connection_release
    \/ Connection_close
    \/ \E sql \in SqlArgs, tag \in TagArgs, scrollable \in BOOLEAN :
          Connection_prepare_stmt(sql, tag, scrollable)
    \/ Connection_new_var(1, MaxBytes)
    \/ \E v \in VarIds : Var_add_ref(v)
    \/ \E v \in VarIds : Var_release(v)
    \/ \E s \in StmtIds : Statement_add_ref(s)
    \/ \E s \in StmtIds : Statement_release(s)
    \/ \E s \in StmtIds : Statement_close(s)
    \/ \E s \in StmtIds : Statement_execute(s)
    \/ \E s \in StmtIds : Statement_fetch(s)
    \/ \E s \in StmtIds : Statement_fetch_rows(s)
    \/ \E s \in StmtIds : Statement_scroll(s)
    \/ Context_get_error

Spec == Init /\ [][Next]_vars

\* the application binding variables to the placeholders of its statements
NextBind ==
    \/ Connection_close
    \/ \E sql \in SqlArgs, tag \in TagArgs, scrollable \in BOOLEAN :
          Connection_prepare_stmt(sql, tag, scrollable)
    \/ Connection_new_var(1, MaxBytes)
    \/ \E v \in VarIds : Var_add_ref(v)
    \/ \E v \in VarIds : Var_release(v)
    \/ \E s \in StmtIds : Statement_release(s)
    \/ \E s \in StmtIds : Statement_close(s)
    \/ \E s \in StmtIds, n \in BindNames \cup {":other"}, v \in VarIds :
          Statement_bind_by_name(s, n, v)
    \/ \E s \in StmtIds, p \in BindPositions \cup {2}, v \in VarIds :
          Statement_bind_by_pos(s, p, v)

SpecBind == Init /\ [][NextBind]_vars

\* the application filling variables and executing a statement over arrays
NextBatch ==
    \/ \E scrollable \in BOOLEAN : Connection_prepare_stmt("sql", None, scrollable)
    \/ \E n \in 1 .. MaxArraySize : Connection_new_var(n, MaxBytes)
    \/ \E v \in VarIds, pos \in 0 .. MaxArraySize :
          Var_set_from_bytes(v, pos, <<106>>)
    \/ \E s \in StmtIds, p \in BindPositions, v \in VarIds :
          Statement_bind_by_pos(s, p, v)
    \/ \E s \in StmtIds, mode \in ExecModes, k \in 1 .. MaxArraySize + 1 :
          Statement_execute_many(s, mode, k)
    \/ \E s \in StmtIds : Statement_get_batch_error_count(s)
    \/ \E s \in StmtIds, n \in 0 .. MaxArraySize : Statement_get_batch_errors(s, n)
    \/ \E s \in StmtIds, n \in 0 .. MaxNames : Statement_get_bind_names(s, n)

SpecBatch == Init /\ [][NextBatch]_vars

\* the application working with the elements of its variables
NextVar ==
    \/ \E sql \in {"sql", DmlReturning}, scrollable \in BOOLEAN :
          Connection_prepare_stmt(sql, None, scrollable)
    \/ \E n \in 1 .. MaxArraySize : Connection_new_var(n, MaxBytes)
    \/ \E v \in VarIds : Var_get_data(v)
    \/ \E v \in VarIds, pos \in 0 .. MaxArraySize :
          Var_set_from_bytes(v, pos, <<106>>)
    \/ \E s \in StmtIds, p \in BindPositions, v \in VarIds :
          Statement_bind_by_pos(s, p, v)
    \/ \E s \in StmtIds : Statement_execute(s)

SpecVar == Init /\ [][NextVar]_vars

\* ---- enqueue Options (mimir/src/enqueue/mod.rs)
Visibilities == {"Immediate", "OnCommit"}

Options_get_visibility ==
    \E rc \in Status :
       LET r == dpiEnqOptions_getVisibility(heap, rc)
           t == try_dpi(r.rc, r.out, ErrorKind("EnqOptions", "dpiEnqOptions_getMode"))
       IN /\ heap' = r.heap
          /\ errSlot' = r.err
          /\ ret' = Call("get_visibility", "Options", 0, t, r)
          /\ app' = app

Options_set_visibility(visibility) ==
    \E rc \in Status :
       LET r == dpiEnqOptions_setVisibility(heap, visibility, rc)
           t == try_dpi(r.rc, 0, ErrorKind("EnqOptions", "dpiEnqOptions_setVisibility"))
       IN /\ heap' = r.heap
          /\ errSlot' = r.err
          /\ ret' = [Call("set_visibility", "Options", 0, t, r)
                       EXCEPT !.args = <<visibility>>]
          /\ app' = app

\* ---- message Properties (src/message/mod.rs)
Properties_get_correlation ==
    \E rc \in Status :
       LET r == dpiMsgProps_getCorrelation(heap, rc)
           correlation == IF r.out.ptr.null THEN <<>>
                          ELSE ODPIStr_into(r.out.ptr, r.out.len)
           t == try_dpi(r.rc, correlation,
                        ErrorKind("Lob", "dpiMsgProps_getCorrelation"))
       IN /\ heap' = r.heap
          /\ errSlot' = r.err
          /\ ret' = Call("get_correlation", "Properties", 0, t, r)
          /\ app' = app

Properties_set_correlation(correlation) ==
    \E rc \in Status :
       LET r == dpiMsgProps_setCorrelation(heap, Ptr(correlation), Len(correlation), rc)
           t == try_dpi(r.rc, 0, ErrorKind("MsgProps", "dpiMsgProps_setCorrelation"))
       IN /\ heap' = r.heap
          /\ errSlot' = r.err
          /\ ret' = [Call("set_correlation", "Properties", 0, t, r)
                       EXCEPT !.args = <<correlation>>]
          /\ app' = app

\* ---- Object (src/object/mod.rs)
Object_append_element(data) ==
    /\ heap.coll.len < MaxElems
    /\ LET r == dpiObject_appendElement(heap, data)
           t == try_dpi(r.rc, 0, ErrorKind("Object", "dpiObject_appendElement"))
       IN /\ heap' = r.heap
          /\ errSlot' = r.err
          /\ ret' = [Call("append_element", "Object", 0, t, r) EXCEPT !.args = <<data>>]
          /\ app' = [app EXCEPT !.walk = NoWalk]

Object_delete_element_by_index(index) ==
    LET r == dpiObject_deleteElementByIndex(heap, index)
        t == try_dpi(r.rc, 0, ErrorKind("Object", "dpiObject_deleteElementByIndex"))
    IN /\ heap' = r.heap
       /\ errSlot' = r.err
       /\ ret' = [Call("delete_element_by_index", "Object", 0, t, r)
                    EXCEPT !.args = <<index>>]
       /\ app' = [app EXCEPT !.walk = NoWalk]

Object_get_element_exists_by_index(index) ==
    LET r == dpiObject_getElementExistsByIndex(heap, index)
        t == try_dpi(r.rc, r.out = 1,
                     ErrorKind("Object", "dpiObject_getElementExistsByIndex"))
    IN /\ heap' = r.heap
       /\ errSlot' = r.err
       /\ ret' = [Call("get_element_exists_by_index", "Object", 0, t, r)
                    EXCEPT !.args = <<index>>]
       /\ app' = app

Object_get_element_value_by_index(index) ==
    LET r == dpiObject_getElementValueByIndex(heap, index)
        t == try_dpi(r.rc, r.out,
                     ErrorKind("Object", "dpiObject_getElementExistsByIndex"))
    IN /\ heap' = r.heap
       /\ errSlot' = r.err
       /\ ret' = [Call("get_element_value_by_index", "Object", 0, t, r)
                    EXCEPT !.args = <<index>>]
       /\ app' = app

\* ---- the tests of Statement (src/statement/mod.rs, mod test)
\* add_ref_release: conn.prepare_stmt, stmt.add_ref, stmt.release
TestCalls == <<"prepare_stmt", "add_ref", "release">>

\* the handle the next call of test t is made on: CONN is reached through the
\* static, which unsafe impl Sync for ConnResult lets every thread borrow
NextHandle(t) == IF app.thread[t].step = 0 THEN CONN ELSE LocalStmt(t)

\* the threads that are inside a native call on handle
Inside(handle) == {u \in Threads : app.thread[u].inside /\ app.thread[u].handle = handle}

\* thread t enters the native call of its next wrapper call
add_ref_release_call(t) ==
    /\ ~app.thread[t].inside
    /\ app.thread[t].step < Len(TestCalls)
    /\ LET handle == NextHandle(t)
       IN app' = [app EXCEPT !.thread =
                    [u \in Threads |->
                        IF u = t
                        THEN [app.thread[t] EXCEPT !.inside = TRUE,
                                                   !.handle = handle,
                                                   !.raced = Inside(handle) # {}]
                        ELSE IF u \in Inside(handle)
                        THEN [app.thread[u] EXCEPT !.raced = TRUE]
                        ELSE app.thread[u]]]
    /\ UNCHANGED <<heap, errSlot, ret>>

\* the native call of thread t returns; a call that ran while another thread
\* was in a call on the same handle has raced with it, and what it returns is
\* not defined.  On Err the test ends.
add_ref_release_return(t) ==
    /\ app.thread[t].inside
    /\ \E rc \in (IF app.thread[t].raced THEN Status ELSE {"DPI_SUCCESS"}) :
         LET op == TestCalls[app.thread[t].step + 1]
             fn == IF op = "prepare_stmt" THEN "dpiConn_prepareStmt"
                   ELSE IF op = "add_ref" THEN "dpiStmt_addRef" ELSE "dpiStmt_release"
             t_ == try_dpi(rc, 0, ErrorKind(app.thread[t].handle.kind, fn))
         IN /\ ret' = [op |-> op, obj |-> app.thread[t].handle.kind, h |-> t,
                       res |-> t_.res, err |-> t_.err, val |-> 0, held |-> 0,
                       freed |-> FALSE, info |-> errSlot, want |-> NoInfo,
                       afterFail |-> FALSE, args |-> <<>>, passed |-> TRUE,
                       old |-> NoVar]
            /\ app' = [app EXCEPT !.thread[t] =
                         [step |-> IF t_.res = "Ok" THEN @.step + 1 ELSE Len(TestCalls),
                          inside |-> FALSE, handle |-> NoHandle, raced |-> FALSE]]
    /\ UNCHANGED <<heap, errSlot>>

\* ---- Object, the indices of a collection (src/object/mod.rs)
\* what the application knows after it was given (idx, exists) as the start of
\* a walk in direction dir
Started(dir, found) ==
    [dir |-> dir, seen |-> IF found[2] THEN <<found[1]>> ELSE <<>>,
     done |-> ~found[2]]

\* what it knows after it asked for the index that follows index: the walk goes
\* on if index is the one it was given last, and is given up otherwise
Continued(walk, dir, index, found) ==
    IF walk.dir = dir /\ ~walk.done /\ walk.seen # <<>>
       /\ walk.seen[Len(walk.seen)] = index
    THEN [walk EXCEPT !.seen = IF found[2] THEN Append(@, found[1]) ELSE @,
                      !.done = ~found[2]]
    ELSE NoWalk

Object_get_first_index ==
    LET r == dpiObject_getFirstIndex(heap)
        t == try_dpi(r.rc, <<r.out.idx, r.out.exists = 1>>,
                     ErrorKind("Object", "dpiObject_getFirstIndex"))
    IN /\ heap' = r.heap
       /\ errSlot' = r.err
       /\ ret' = Call("get_first_index", "Object", 0, t, r)
       /\ app' = [app EXCEPT !.walk = Started("up", t.val)]

Object_get_last_index ==
    LET r == dpiObject_getLastIndex(heap)
        t == try_dpi(r.rc, <<r.out.idx, r.out.exists = 1>>,
                     ErrorKind("Object", "dpiObject_getLastIndex"))
    IN /\ heap' = r.heap
       /\ errSlot' = r.err
       /\ ret' = Call("get_last_index", "Object", 0, t, r)
       /\ app' = [app EXCEPT !.walk = Started("down", t.val)]

\* get_next_index that asks the library for the previous index
Object_get_next_index_backwards(index) ==
    LET r == dpiObject_getPrevIndex(heap, index)
        t == try_dpi(r.rc, <<r.out.idx, r.out.exists = 1>>,
                     ErrorKind("Object", "dpiObject_getNextIndex"))
    IN /\ heap' = r.heap
       /\ errSlot' = r.err
       /\ ret' = [Call("get_next_index", "Object", 0, t, r) EXCEPT !.args = <<index>>]
       /\ app' = [app EXCEPT !.walk = Continued(app.walk, "up", index, t.val)]

Object_get_next_index(index) ==
    LET r == dpiObject_getNextIndex(heap, index)
        t == try_dpi(r.rc, <<r.out.idx, r.out.exists = 1>>,
                     ErrorKind("Object", "dpiObject_getNextIndex"))
    IN /\ heap' = r.heap
       /\ errSlot' = r.err
       /\ ret' = [Call("get_next_index", "Object", 0, t, r) EXCEPT !.args = <<index>>]
       /\ app' = [app EXCEPT !.walk = Continued(app.walk, "up", index, t.val)]

Object_get_prev_index(index) ==
    LET r == dpiObject_getPrevIndex(heap, index)
        t == try_dpi(r.rc, <<r.out.idx, r.out.exists = 1>>,
                     ErrorKind("Object", "dpiObject_getPrevIndex"))
    IN /\ heap' = r.heap
       /\ errSlot' = r.err
       /\ ret' = [Call("get_prev_index", "Object", 0, t, r) EXCEPT !.args = <<index>>]
       /\ app' = [app EXCEPT !.walk = Continued(app.walk, "down", index, t.val)]

Object_trim(num_to_trim) ==
    LET r == dpiObject_trim(heap, num_to_trim)
        t == try_dpi(r.rc, 0, ErrorKind("Object", "dpiObject_trim"))
    IN /\ heap' = r.heap
       /\ errSlot' = r.err
       /\ ret' = [Call("trim", "Object", 0, t, r) EXCEPT !.args = <<num_to_trim>>]
       /\ app' = [app EXCEPT !.walk = NoWalk]

\* ---- LOBs (mimir/src/connection/mod.rs; Lob as the lob test uses it)
LobTypes == {"Clob", "NClob", "Blob"}

Connection_new_temp_lob(lob_type) ==
    /\ ~heap.lob.made
    /\ IF lob_type \notin LobTypes
       THEN /\ ret' = [Refused("Connection", <<lob_type>>) EXCEPT
                         !.op = "new_temp_lob",
                         !.err = ErrorKind("Connection", "invalid oracle type")]
            /\ UNCHANGED <<heap, errSlot, app>>
       ELSE \E ub \in Status :
               LET r == dpiConn_newTempLob(heap, ub)
                   t == try_dpi(r.rc, r.out, ErrorKind("Connection", "dpiConn_newTempLob"))
               IN /\ heap' = r.heap
                  /\ errSlot' = r.err
                  /\ ret' = [Call("new_temp_lob", "Connection", 0, t, r)
                               EXCEPT !.args = <<lob_type>>]
                  /\ app' = app

\* write_bytes that takes the offset as 0-based
Lob_write_bytes_from_zero(b, len, offset) ==
    /\ heap.lob.made
    /\ LET r == dpiLob_writeBytes(heap, offset + 1, b, len)
           t == try_dpi(r.rc, 0, ErrorKind("Lob", "dpiLob_writeBytes"))
       IN /\ heap' = r.heap
          /\ errSlot' = r.err
          /\ ret' = [Call("write_bytes", "Lob", 0, t, r) EXCEPT !.args = <<b, len, offset>>]
          /\ app' = app

\* temp_lob.write_bytes(&buffer, offset), buffer being len bytes of value b
Lob_write_bytes(b, len, offset) ==
    /\ heap.lob.made
    /\ LET r == dpiLob_writeBytes(heap, offset, b, len)
           t == try_dpi(r.rc, 0, ErrorKind("Lob", "dpiLob_writeBytes"))
       IN /\ heap' = r.heap
          /\ errSlot' = r.err
          /\ ret' = [Call("write_bytes", "Lob", 0, t, r) EXCEPT !.args = <<b, len, offset>>]
          /\ app' = app

Lob_read_bytes(offset, length) ==
    /\ heap.lob.made
    /\ LET r == dpiLob_readBytes(heap, offset, length)
           t == try_dpi(r.rc, r.out, ErrorKind("Lob", "dpiLob_readBytes"))
       IN /\ heap' = r.heap
          /\ errSlot' = r.err
          /\ ret' = [Call("read_bytes", "Lob", 0, t, r) EXCEPT !.args = <<offset, length>>]
          /\ app' = app

Lob_get_size ==
    /\ heap.lob.made
    /\ LET r == dpiLob_getSize(heap)
           t == try_dpi(r.rc, r.out, ErrorKind("Lob", "dpiLob_getSize"))
       IN /\ heap' = r.heap
          /\ errSlot' = r.err
          /\ ret' = Call("get_size", "Lob", 0, t, r)
          /\ app' = app

\* a u32 is kept as two 16-bit halves, hi * Half + lo
Half == 65536

\* ---- Connection, the names (mimir/src/connection/mod.rs)
\* CString::new(s): an error for a string with a NUL byte, else s and a NUL
HasNul(s) == \E i \in 1 .. Len(s) : s[i] = Nul
CString_new(s) == Ptr(s \o <<Nul>>)

\* n <= u32::max_value()
FitsU32(n) == n \div Half < Half

\* what a getter makes of the pointer and the length the library gave: the
\* C string at pdst, converted lossily, if its length is dstlen
NameRead(fn, rc, out) ==
    IF rc # "DPI_SUCCESS"
    THEN [res |-> "Err", val |-> 0, err |-> ErrorKind("Connection", fn)]
    ELSE IF out.ptr.null
    THEN [res |-> "Err", val |-> 0, err |-> ErrorKind("Connection", "null pointer!")]
    ELSE LET name == Lossy(UpToNul(out.ptr.at))
         IN IF Len(name) = out.len
            THEN [res |-> "Ok", val |-> name, err |-> NoErr]
            ELSE [res |-> "Err", val |-> 0,
                  err |-> ErrorKind("Connection", "invalid string length!")]

\* what a setter returns without a native call
NotSet(op, kind, s) ==
    [Refused("Connection", <<s>>) EXCEPT !.op = op, !.err = ErrorKind(kind, "")]

Connection_get_external_name ==
    \E ub \in Status :
       LET r == dpiConn_getExternalName(heap, ub)
           t == NameRead("dpiConn_getExternalName", r.rc, r.out)
       IN /\ heap' = r.heap
          /\ errSlot' = r.err
          /\ ret' = Call("get_external_name", "Connection", 0, t, r)
          /\ app' = app

\* get_internal_name that asks for the external name
Connection_get_internal_name_external ==
    \E ub \in Status :
       LET r == dpiConn_getExternalName(heap, ub)
           t == NameRead("dpiConn_getInternalName", r.rc, r.out)
       IN /\ heap' = r.heap
          /\ errSlot' = r.err
          /\ ret' = Call("get_internal_name", "Connection", 0, t, r)
          /\ app' = app

Connection_get_internal_name ==
    \E ub \in Status :
       LET r == dpiConn_getInternalName(heap, ub)
           t == NameRead("dpiConn_getInternalName", r.rc, r.out)
       IN /\ heap' = r.heap
          /\ errSlot' = r.err
          /\ ret' = Call("get_internal_name", "Connection", 0, t, r)
          /\ app' = app

Connection_set_external_name(external_name) ==
    IF HasNul(external_name)
    THEN /\ ret' = NotSet("set_external_name", "NulError", external_name)
         /\ UNCHANGED <<heap, errSlot, app>>
    ELSE IF ~FitsU32(Len(external_name) + 1)
    THEN /\ ret' = NotSet("set_external_name", "Connection", external_name)
         /\ UNCHANGED <<heap, errSlot, app>>
    ELSE \E ub \in Status :
            LET r == dpiConn_setExternalName(heap, CString_new(external_name),
                                             Len(external_name) + 1, ub)
                t == try_dpi(r.rc, 0, ErrorKind("Connection", "dpiConn_setExternalName"))
            IN /\ heap' = r.heap
               /\ errSlot' = r.err
               /\ ret' = [Call("set_external_name", "Connection", 0, t, r)
                            EXCEPT !.args = <<external_name>>]
               /\ app' = app

Connection_set_internal_name(internal_name) ==
    IF HasNul(internal_name)
    THEN /\ ret' = NotSet("set_internal_name", "NulError", internal_name)
         /\ UNCHANGED <<heap, errSlot, app>>
    ELSE IF ~FitsU32(Len(internal_name) + 1)
    THEN /\ ret' = NotSet("set_internal_name", "Connection", internal_name)
         /\ UNCHANGED <<heap, errSlot, app>>
    ELSE \E ub \in Status :
            LET r == dpiConn_setInternalName(heap, CString_new(internal_name),
                                             Len(internal_name) + 1, ub)
                t == try_dpi(r.rc, 0, ErrorKind("Connection", "dpiConn_setInternalName"))
            IN /\ heap' = r.heap
               /\ errSlot' = r.err
               /\ ret' = [Call("set_internal_name", "Connection", 0, t, r)
                            EXCEPT !.args = <<internal_name>>]
               /\ app' = app

\* ---- timestamps (src/odpi/structs.rs, mimir/src/data/mod.rs, src/message/mod.rs)
U32(x) == [hi |-> x \div Half, lo |-> x % Half]

\* x * 1000 in u32 arithmetic: the wrapped product and whether it overflowed
MulThousand(x) ==
    LET low   == U32(x).lo * 1000
        high  == U32(x).hi * 1000 + (low \div Half)
    IN [hi |-> high % Half, lo |-> low % Half, overflow |-> high >= Half]

\* the u32 is below two million, the microseconds and_hms_micro accepts
BelowTwoMillion(u) == u.hi < 30 \/ (u.hi = 30 /\ u.lo < 33920)

ODPITimestamp(y, m, d, h, mi, s, fs) ==
    [year |-> y, month |-> m, day |-> d, hour |-> h, minute |-> mi,
     second |-> s, fsecond |-> fs]

\* the timestamp the library hands out for a value that is not set
Sentinel(t) == t.year = -10100 /\ t.month = 0 /\ t.day = 0

LeapYear(y) == (y % 4 = 0 /\ y % 100 # 0) \/ y % 400 = 0

DaysInMonth(y, m) ==
    IF m = 2 THEN (IF LeapYear(y) THEN 29 ELSE 28)
    ELSE IF m \in {4, 6, 9, 11} THEN 30 ELSE 31

\* Utc.ymd(y, m, d) panics unless the date exists
ValidDate(y, m, d) == m \in 1 .. 12 /\ d \in 1 .. DaysInMonth(y, m)

ValidTime(h, mi, s) == h < 24 /\ mi < 60 /\ s < 60

\* what a conversion returns: the clock's reading, a date and time, or a panic
Now == [now |-> TRUE]
Panic == [panic |-> TRUE]
DateTime(t, nano) ==
    [year |-> t.year, month |-> t.month, day |-> t.day, hour |-> t.hour,
     minute |-> t.minute, second |-> t.second, nanosecond |-> nano]

\* Utc.ymd(y, m, d).and_hms_nano(h, mi, s, nano)
and_hms_nano(t, nano) ==
    IF ValidDate(t.year, t.month, t.day)
       /\ ValidTime(t.hour, t.minute, t.second) /\ nano < 2000000000
    THEN DateTime(t, nano) ELSE Panic

\* Utc.ymd(y, m, d).and_hms_micro(h, mm, s, micro), micro a u32 in halves
and_hms_micro(t, micro) ==
    IF ValidDate(t.year, t.month, t.day)
       /\ ValidTime(t.hour, t.minute, t.second) /\ BelowTwoMillion(micro)
    THEN DateTime(t, (micro.hi * Half + micro.lo) * 1000) ELSE Panic

\* the builds: arithmetic overflow panics with debug assertions and wraps
\* without them
Builds == {"debug", "release"}

\* impl From<ODPITimestamp> for DateTime<Utc>
From_ODPITimestamp(timestamp, build) ==
    LET fs == MulThousand(timestamp.fsecond)
    IN IF fs.overflow /\ build = "debug" THEN Panic
       ELSE IF Sentinel(timestamp) THEN Now
       ELSE and_hms_micro(timestamp, fs)

\* what the application is handed by a call that converts a timestamp
Converted(op, obj, timestamp, build, res, val) ==
    [op |-> op, obj |-> obj, h |-> 0, res |-> res, err |-> NoErr, val |-> val,
     held |-> 0, freed |-> FALSE, info |-> errSlot, want |-> NoInfo,
     afterFail |-> FALSE, args |-> <<timestamp, build>>, passed |-> FALSE,
     old |-> NoVar]

\* let dt: DateTime<Utc> = timestamp.into();
ODPITimestamp_into(timestamp, build) ==
    /\ LET dt == From_ODPITimestamp(timestamp, build)
       IN ret' = Converted("into", "ODPITimestamp", timestamp, build,
                           IF dt = Panic THEN "Panic" ELSE "Ok", dt)
    /\ UNCHANGED <<heap, errSlot, app>>

\* Data::get_utc on an element that holds odpi_ts
Data_get_utc(odpi_ts, build) ==
    /\ LET dt == and_hms_nano(odpi_ts, odpi_ts.fsecond)
       IN ret' = Converted("get_utc", "Data", odpi_ts, build,
                           IF dt = Panic THEN "Panic" ELSE "Ok", dt)
    /\ UNCHANGED <<heap, errSlot, app>>

\* fills in the time the message was enqueued
dpiMsgProps_getEnqTime(h, timestamp, rc) ==
    IF rc = "DPI_SUCCESS" THEN Succeeded(h, "dpiMsgProps_getEnqTime", timestamp)
    ELSE Failed(h, "dpiMsgProps_getEnqTime", "no enqueue time")

\* Properties::get_enq_time when the library reports timestamp
Properties_get_enq_time(timestamp, build) ==
    \E rc \in Status :
        LET r  == dpiMsgProps_getEnqTime(heap, timestamp, rc)
            dt == From_ODPITimestamp(r.out, build)
            t  == try_dpi(r.rc, dt, ErrorKind("MsgProps", "dpiMsgProps_getEnqTime"))
        IN /\ heap' = r.heap
           /\ errSlot' = r.err
           /\ ret' = [Converted("get_enq_time", "Properties", timestamp, build,
                                IF t.res = "Ok" /\ dt = Panic THEN "Panic"
                                ELSE t.res, t.val)
                        EXCEPT !.err = t.err, !.passed = TRUE]
           /\ app' = app

\* fractional seconds around the values where the product by 1000 reaches two
\* million and where it leaves the u32 range
FSeconds == {0, 1, 1999, 2000, 4294967, 4294968, 999999999}

Timestamps ==
    {ODPITimestamp(y, m, d, 23, 59, 59, fs) :
        y \in {-10100, 2017}, m \in {0, 2}, d \in {0, 28}, fs \in FSeconds}

NextTime ==
    \/ \E t \in Timestamps, build \in Builds : ODPITimestamp_into(t, build)
    \/ \E t \in Timestamps, build \in Builds : Data_get_utc(t, build)
    \/ \E t \in Timestamps, build \in Builds : Properties_get_enq_time(t, build)

SpecTime == Init /\ [][NextTime]_vars

\* a string that fits a buffer of MaxBytes bytes and one that does not
CellStrings == {<<106>>, <<106, 111, 122>>}

\* the application writing and reading single elements
NextCell ==
    \/ Connection_new_var(1, MaxBytes)
    \/ \E v \in VarIds, pos \in 0 .. 1, value \in CellStrings :
          Var_set_from_bytes(v, pos, value)
    \/ \E v \in VarIds, pos \in 0 .. 1 : Var_set_from_lob(v, pos)
    \/ \E v \in VarIds, pos \in 0 .. 1 : Var_set_from_object(v, pos)
    \/ \E v \in VarIds, pos \in 0 .. 1 : Var_set_from_rowid(v, pos)
    \/ \E v \in VarIds, pos \in 0 .. 1 : Var_set_from_stmt(v, pos)
    \/ \E v \in VarIds, dst \in VarIds, src_pos \in 0 .. 1,
          dst_pos \in 0 .. 1 : Var_copy_data(v, src_pos, dst, dst_pos)
    \/ \E v \in VarIds, pos \in 0 .. 1 : Data_get_string(v, pos)
    \/ \E v \in VarIds, pos \in 0 .. 1, value \in CellStrings :
          Data_set_string(v, pos, value)

SpecCell == Init /\ [][NextCell]_vars

\* lengths of ids: as in the test, at the maximum, and one byte over it
IdLens == {3, MaxIdLen, MaxIdLen + 1}
FormatIds == {-1, 1}

\* the application beginning distributed transactions on its connection
NextTxn ==
    \/ Connection_add_ref
    \/ Connection_release
    \/ Connection_close
    \/ \E format_id \in FormatIds, txn_id \in IdLens, branch_id \in IdLens :
          Connection_begin_distrib_trans(format_id, txn_id, branch_id)

SpecTxn == Init /\ [][NextTxn]_vars

\* the application reading and setting queue options, message properties and
\* the elements of a collection
NextErr ==
    \/ Options_get_visibility
    \/ \E visibility \in Visibilities : Options_set_visibility(visibility)
    \/ Properties_get_correlation
    \/ \E correlation \in CellStrings : Properties_set_correlation(correlation)
    \/ \E data \in {NullCell, BytesCell(<<106>>)} : Object_append_element(data)
    \/ \E index \in ElemIds : Object_delete_element_by_index(index)
    \/ \E index \in ElemIds : Object_get_element_exists_by_index(index)
    \/ \E index \in ElemIds : Object_get_element_value_by_index(index)

SpecErr == Init /\ [][NextErr]_vars

\* the test harness running its tests on threads of their own
NextThread ==
    \/ \E t \in Threads : add_ref_release_call(t)
    \/ \E t \in Threads : add_ref_release_return(t)

SpecThread == Init /\ [][NextThread]_vars

\* the application changing a collection and walking over its indices
NextColl ==
    \/ Object_append_element(BytesCell(<<106>>))
    \/ \E index \in ElemIds : Object_delete_element_by_index(index)
    \/ \E num_to_trim \in 1 .. 2 : Object_trim(num_to_trim)
    \/ Object_get_first_index
    \/ Object_get_last_index
    \/ \E index \in ElemIds : Object_get_next_index(index)
    \/ \E index \in ElemIds : Object_get_prev_index(index)

SpecColl == Init /\ [][NextColl]_vars

\* the chunk of the test, and a short buffer
ChunkSize == 8132
BufferLens == {1, ChunkSize}
\* offsets at the start of the LOB and around the end of its first chunk
LobOffsets == {1, ChunkSize, ChunkSize + 1}

\* the application writing into a temporary LOB and reading it; it writes at
\* most one byte past the end, and no more than MaxLobSize bytes in all
NextLob ==
    \/ \E lob_type \in LobTypes \cup {"Varchar"} : Connection_new_temp_lob(lob_type)
    \/ \E b \in {0, 1}, len \in BufferLens, offset \in LobOffsets :
          /\ offset <= RunsSize(heap.lob.runs) + 1
          /\ offset - 1 + len <= MaxLobSize
          /\ Lob_write_bytes(b, len, offset)
    \/ \E offset \in LobOffsets, length \in {1, 2} : Lob_read_bytes(offset, length)
    \/ Lob_get_size

SpecLob == Init /\ [][NextLob]_vars

\* names: the empty one, one and two bytes, and one with a NUL byte inside
Names == {<<>>, <<101>>, <<101, 120>>, <<101, 0, 120>>}

\* the application naming its connection
NextName ==
    \/ Connection_close
    \/ \E s \in Names : Connection_set_external_name(s)
    \/ Connection_get_external_name
    \/ \E s \in Names : Connection_set_internal_name(s)
    \/ Connection_get_internal_name

SpecName == Init /\ [][NextName]_vars

\* the application creating contexts and letting them go out of scope
NextCtx ==
    \/ \E c \in CtxIds : Context_create(c)
    \/ \E c \in CtxIds : Context_drop(c)
    \/ Context_get_error

SpecCtx == Init /\ [][NextCtx]_vars

\* ---- Data, the value of one cell (mimir/src/data/mod.rs)
\* the library hands out the cell of the column at pos of the fetched row
dpiStmt_getQueryValue(h, s, pos, data, rc) ==
    IF rc = "DPI_SUCCESS"
    THEN Succeeded([h EXCEPT !.cell = data], "dpiStmt_getQueryValue", data)
    ELSE Failed(h, "dpiStmt_getQueryValue", "no row fetched")

Statement_get_query_value(s, pos, data) ==
    \E rc \in Status :
       LET r == dpiStmt_getQueryValue(heap, s, pos, data, rc)
           t == try_dpi(r.rc, r.out, ErrorKind("Statement", "dpiStmt_getQueryValue"))
       IN /\ heap' = r.heap
          /\ errSlot' = r.err
          /\ ret' = [Call("get_query_value", "Statement", s, t, r) EXCEPT !.args = <<pos>>]
          /\ app' = app

\* the value the call before this one was to write, if it was setter
Written(setter) == IF ret.op = setter THEN <<ret.args[1]>> ELSE <<>>

\* what a setter of Data returns: nothing, and no native call is made; old
\* keeps the is_null the cell had when the setter was called
Wrote(op, val) ==
    [op |-> op, obj |-> "Data", h |-> 0, res |-> "Ok", err |-> NoErr, val |-> 0,
     held |-> 0, freed |-> FALSE, info |-> errSlot, want |-> NoInfo,
     afterFail |-> FALSE, args |-> <<val>>, passed |-> FALSE,
     old |-> heap.cell.is_null]

\* what a getter of Data returns; old keeps what setter was to write before
Read(op, setter, val) ==
    [Wrote(op, 0) EXCEPT !.val = val, !.args = <<>>, !.old = Written(setter)]

Data_get_boolean ==
    /\ heap.cell.native_type = "Boolean"
    /\ ret' = Read("get_boolean", "set_boolean", heap.cell.value = 1)
    /\ UNCHANGED <<heap, errSlot, app>>

Data_set_boolean(val) ==
    /\ heap.cell.native_type = "Boolean"
    /\ heap' = [heap EXCEPT !.cell.value = IF val THEN 1 ELSE 0]
    /\ ret' = Wrote("set_boolean", val)
    /\ UNCHANGED <<errSlot, app>>

Data_get_double ==
    /\ heap.cell.native_type = "Double"
    /\ ret' = Read("get_double", "set_double", heap.cell.value)
    /\ UNCHANGED <<heap, errSlot, app>>

Data_set_double(val) ==
    /\ heap.cell.native_type = "Double"
    /\ heap' = [heap EXCEPT !.cell.value = val]
    /\ ret' = Wrote("set_double", val)
    /\ UNCHANGED <<errSlot, app>>

Data_get_int64 ==
    /\ heap.cell.native_type = "Int64"
    /\ ret' = Read("get_int64", "set_int64", heap.cell.value)
    /\ UNCHANGED <<heap, errSlot, app>>

\* set_int64 that also says that the cell holds a value
Data_set_int64_not_null(val) ==
    /\ heap.cell.native_type = "Int64"
    /\ heap' = [heap EXCEPT !.cell.value = val, !.cell.is_null = 0]
    /\ ret' = Wrote("set_int64", val)
    /\ UNCHANGED <<errSlot, app>>

Data_set_int64(val) ==
    /\ heap.cell.native_type = "Int64"
    /\ heap' = [heap EXCEPT !.cell.value = val]
    /\ ret' = Wrote("set_int64", val)
    /\ UNCHANGED <<errSlot, app>>

\* a chrono Duration: whole seconds and the nanoseconds beyond them
Duration(secs, nanos) == [secs |-> secs, nanos |-> nanos]
Billion == 1000000000
ODPIIntervalDS(days, hours, minutes, seconds, fseconds) ==
    [days |-> days, hours |-> hours, minutes |-> minutes, seconds |-> seconds,
     fseconds |-> fseconds]

Data_get_duration ==
    /\ heap.cell.native_type = "IntervalDS"
    /\ LET odpi_int_ds == heap.cell.value
           secs == odpi_int_ds.days * 86400 + odpi_int_ds.hours * 3600
                     + odpi_int_ds.minutes * 60 + odpi_int_ds.seconds
       IN ret' = Read("get_duration", "set_duration",
                      Duration(secs + odpi_int_ds.fseconds \div Billion,
                               odpi_int_ds.fseconds % Billion))
    /\ UNCHANGED <<heap, errSlot, app>>

\* set_duration fills in odpi_int_ds, a copy of the member of the cell:
\* num_days, num_hours, num_minutes and num_seconds are each the whole duration
\* in that unit, num_nanoseconds the whole duration in nanoseconds. The cell
\* itself is not written.
Data_set_duration(val) ==
    /\ heap.cell.native_type = "IntervalDS"
    /\ LET odpi_int_ds == ODPIIntervalDS(val.secs \div 86400, val.secs \div 3600,
                                         val.secs \div 60, val.secs,
                                         val.secs * Billion + val.nanos)
       IN ret' = Wrote("set_duration", val)
    /\ UNCHANGED <<heap, errSlot, app>>

\* set_utc fills in odpi_ts, a copy of the member of the cell, and not its
\* fsecond. The cell itself is not written.
Data_set_utc(val) ==
    /\ heap.cell.native_type = "Timestamp"
    /\ LET odpi_ts == [heap.cell.value EXCEPT
                         !.year = val.year, !.month = val.month, !.day = val.day,
                         !.hour = val.hour, !.minute = val.minute,
                         !.second = val.second]
       IN ret' = Wrote("set_utc", val)
    /\ UNCHANGED <<heap, errSlot, app>>

\* get_utc of the cell
Data_get_utc_of_cell(build) ==
    /\ heap.cell.native_type = "Timestamp"
    /\ LET dt == and_hms_nano(heap.cell.value, heap.cell.value.fsecond)
       IN ret' = [Read("get_utc", "set_utc", dt) EXCEPT
                    !.res = IF dt = Panic THEN "Panic" ELSE "Ok"]
    /\ UNCHANGED <<heap, errSlot, app>>

YearsMonths(years, months) == [years |-> years, months |-> months]

Data_get_years_months ==
    /\ heap.cell.native_type = "IntervalYM"
    /\ ret' = Read("get_years_months", "set_years_months",
                   YearsMonths(heap.cell.value.years, heap.cell.value.months))
    /\ UNCHANGED <<heap, errSlot, app>>

\* set_years_months fills in odpi_int_ym, a copy of the member of the cell.
\* The cell itself is not written.
Data_set_years_months(val) ==
    /\ heap.cell.native_type = "IntervalYM"
    /\ LET odpi_int_ym == [heap.cell.value EXCEPT !.years = val.years,
                                                  !.months = val.months]
       IN ret' = Wrote("set_years_months", val)
    /\ UNCHANGED <<heap, errSlot, app>>

\* the values of the cells and of the arguments
Int64s == {-1, 7}
Doubles == {0, 2}
Durations == {Duration(1, 5), Duration(2, 0)}
IntervalsDS == {ODPIIntervalDS(0, 0, 0, 1, 5), ODPIIntervalDS(0, 0, 0, 2, 0)}
IntervalsYM == {YearsMonths(1, 2), YearsMonths(3, 4)}
CellTimestamps == {ODPITimestamp(2017, 2, 28, 23, 59, 59, 0),
                   ODPITimestamp(2016, 2, 29, 0, 0, 0, 1999)}
DateTimes == {DateTime(t, t.fsecond) : t \in CellTimestamps}

\* the cells the library hands out: of each native type, null or not
FetchedCells ==
    {ODPIData(c[1], is_null, c[2]) :
        c \in ({"Boolean"} \X {0, 1}) \cup ({"Int64"} \X Int64s)
                \cup ({"Double"} \X Doubles) \cup ({"IntervalDS"} \X IntervalsDS)
                \cup ({"IntervalYM"} \X IntervalsYM)
                \cup ({"Timestamp"} \X CellTimestamps),
        is_null \in {0, 1}}

\* the application reading and writing the cell of a fetched column
NextData ==
    \/ \E data \in FetchedCells : Statement_get_query_value(1, 1, data)
    \/ Data_get_boolean
    \/ \E val \in BOOLEAN : Data_set_boolean(val)
    \/ Data_get_double
    \/ \E val \in Doubles : Data_set_double(val)
    \/ Data_get_int64
    \/ \E val \in Int64s : Data_set_int64(val)
    \/ Data_get_duration
    \/ \E val \in Durations : Data_set_duration(val)
    \/ \E build \in Builds : Data_get_utc_of_cell(build)
    \/ \E val \in DateTimes : Data_set_utc(val)
    \/ Data_get_years_months
    \/ \E val \in IntervalsYM : Data_set_years_months(val)

SpecData == Init /\ [][NextData]_vars

\* ---- ObjectType, the attributes (src/objecttype/mod.rs)
\* an entry of the buffer of attribute handles: the handle of attribute attr
\* that the library wrote, or what the memory held before anybody wrote it
Attr(i) == [by |-> "native", attr |-> i]
Unwritten(g) == [by |-> "nobody", attr |-> g]

\* Vec::with_capacity(length): room for length entries, none of them written;
\* what an entry holds is anything: null (0) or the bits of some handle
Uninitialized(length) == [1 .. length -> {Unwritten(g) : g \in 0 .. MaxAttrs}]

\* the object type of that name; the types differ in their number of attributes
dpiConn_getObjectType(h, num_attributes, ub) ==
    IF Freed(h.conn) THEN Undefined(h, "dpiConn_getObjectType", ub)
    ELSE IF ~h.conn.open THEN Failed(h, "dpiConn_getObjectType", "not connected")
    ELSE Succeeded([h EXCEPT !.objtype = [made |-> TRUE, num_attributes |-> num_attributes]],
                   "dpiConn_getObjectType", num_attributes)

dpiObjectType_getInfo(h) ==
    Succeeded(h, "dpiObjectType_getInfo", h.objtype.num_attributes)

\* writes the handles of the attributes the type has into attributes, which
\* has room for numAttributes handles; fails if that is not room enough
dpiObjectType_getAttributes(h, numAttributes, attributes) ==
    IF numAttributes < h.objtype.num_attributes
    THEN Failed(h, "dpiObjectType_getAttributes", "array size too small")
    ELSE Succeeded(h, "dpiObjectType_getAttributes",
                   [i \in 1 .. numAttributes |->
                      IF i <= h.objtype.num_attributes THEN Attr(i) ELSE attributes[i]])

\* a handle the library did not hand out is not a handle: anything can happen
dpiObjectAttr_getInfo(h, attr, ub) ==
    IF attr.by = "native"
    THEN Succeeded(h, "dpiObjectAttr_getInfo", attr.attr)
    ELSE Undefined(h, "dpiObjectAttr_getInfo", ub)

Connection_get_object_type(name) ==
    \E ub \in Status :
       LET r == dpiConn_getObjectType(heap, name, ub)
           t == try_dpi(r.rc, 0, ErrorKind("Connection", "dpiConn_getObjectType"))
       IN /\ heap' = r.heap
          /\ errSlot' = r.err
          /\ ret' = [Call("get_object_type", "Connection", 0, t, r) EXCEPT !.args = <<name>>]
          /\ app' = IF t.res = "Ok" THEN [app EXCEPT !.attrs = <<>>] ELSE app

ObjectType_get_info ==
    /\ heap.objtype.made
    /\ LET r == dpiObjectType_getInfo(heap)
           t == try_dpi(r.rc, r.out, ErrorKind("ObjectType", "dpiObjectType_getInfo"))
       IN /\ heap' = r.heap
          /\ errSlot' = r.err
          /\ ret' = Call("get_info", "ObjectType", 0, t, r)
          /\ app' = app

\* buffer.set_len(length) after the library succeeded; the application keeps
\* the vector it was given
ObjectType_get_attributes(length) ==
    /\ heap.objtype.made
    /\ \E buffer \in Uninitialized(length) :
          LET r == dpiObjectType_getAttributes(heap, length, buffer)
              t == try_dpi(r.rc, r.out, ErrorKind("ObjectType", "dpiObjectType_getAttributes"))
          IN /\ heap' = r.heap
             /\ errSlot' = r.err
             /\ ret' = [Call("get_attributes", "ObjectType", 0, t, r)
                          EXCEPT !.args = <<length>>,
                                 !.val = IF t.res = "Ok" THEN t.val ELSE <<>>]
             /\ app' = IF t.res = "Ok" THEN [app EXCEPT !.attrs = t.val] ELSE app

\* get_info of the attribute at idx of the vector
ObjectAttr_get_info(idx) ==
    /\ idx \in 1 .. Len(app.attrs)
    /\ \E ub \in Status :
          LET r == dpiObjectAttr_getInfo(heap, app.attrs[idx], ub)
              t == try_dpi(r.rc, r.out, ErrorKind("ObjectType", "dpiObjectAttr_getInfo"))
          IN /\ heap' = r.heap
             /\ errSlot' = r.err
             /\ ret' = [Call("get_info", "ObjectAttr", 0, t, r) EXCEPT !.args = <<idx>>]
             /\ app' = app

\* the application looking up an object type and going through its attributes
NextAttr ==
    \/ \E name \in 0 .. MaxAttrs : Connection_get_object_type(name)
    \/ ObjectType_get_info
    \/ \E length \in 0 .. (MaxAttrs + 1) : ObjectType_get_attributes(length)
    \/ \E idx \in 1 .. (MaxAttrs + 1) : ObjectAttr_get_info(idx)

SpecAttr == Init /\ [][NextAttr]_vars

\* ---- Object and Subscription, the wrapper values
\* (src/object/mod.rs, src/subscription/mod.rs)
dpiObjectType_createObject(h, rc) ==
    IF rc = "DPI_SUCCESS"
    THEN Succeeded([h EXCEPT !.object = NewHandleObj], "dpiObjectType_createObject", 0)
    ELSE Failed(h, "dpiObjectType_createObject", "cannot create")

dpiObject_addRef(h, ub) ==
    IF Freed(h.object) THEN Undefined(h, "dpiObject_addRef", ub)
    ELSE Succeeded([h EXCEPT !.object.refs = @ + 1], "dpiObject_addRef", 0)

dpiObject_release(h, ub) ==
    IF Freed(h.object) THEN Undefined(h, "dpiObject_release", ub)
    ELSE Succeeded([h EXCEPT !.object.refs = @ - 1], "dpiObject_release", 0)

dpiConn_newSubscription(h, rc) ==
    IF rc = "DPI_SUCCESS"
    THEN Succeeded([h EXCEPT !.subscr = NewHandleObj], "dpiConn_newSubscription", 0)
    ELSE Failed(h, "dpiConn_newSubscription", "cannot subscribe")

dpiSubscr_addRef(h, ub) ==
    IF Freed(h.subscr) THEN Undefined(h, "dpiSubscr_addRef", ub)
    ELSE Succeeded([h EXCEPT !.subscr.refs = @ + 1], "dpiSubscr_addRef", 0)

dpiSubscr_close(h, ub) ==
    IF Freed(h.subscr) THEN Undefined(h, "dpiSubscr_close", ub)
    ELSE IF ~h.subscr.open THEN Failed(h, "dpiSubscr_close", "not open")
    ELSE Succeeded([h EXCEPT !.subscr.open = FALSE], "dpiSubscr_close", 0)

dpiSubscr_release(h, ub) ==
    IF Freed(h.subscr) THEN Undefined(h, "dpiSubscr_release", ub)
    ELSE Succeeded([h EXCEPT !.subscr.refs = @ - 1,
                             !.subscr.open = IF h.subscr.refs = 1 THEN FALSE ELSE @],
                   "dpiSubscr_release", 0)

\* a wrapper method that hands the handle to the library and returns Ok(())
Handed(op, kind, fn, r) ==
    /\ heap' = r.heap
    /\ errSlot' = r.err
    /\ ret' = Call(op, kind, 0, try_dpi(r.rc, 0, ErrorKind(kind, fn)), r)

\* a wrapper value that is copied or goes out of scope: the pointer is copied
\* or forgotten, and the library is not called
Wrapper(op, kind, count) ==
    /\ ret' = [op |-> op, obj |-> kind, h |-> 0, res |-> "Ok", err |-> NoErr,
               val |-> 0, held |-> 0, freed |-> FALSE, info |-> errSlot,
               want |-> NoInfo, afterFail |-> FALSE, args |-> <<>>,
               passed |-> FALSE, old |-> NoVar]
    /\ app' = [app EXCEPT !.wrappers[kind] = count]
    /\ UNCHANGED <<heap, errSlot>>

ObjectType_create ==
    /\ heap.objtype.made
    /\ ~heap.object.made
    /\ \E rc \in Status :
          LET r == dpiObjectType_createObject(heap, rc)
          IN /\ Handed("create", "ObjectType", "dpiObjectType_createObject", r)
             /\ app' = IF r.rc = "DPI_SUCCESS"
                       THEN [app EXCEPT !.wrappers["Object"] = 1] ELSE app

Object_add_ref ==
    /\ app.wrappers["Object"] > 0
    /\ heap.object.refs <= MaxRefs
    /\ \E ub \in Status : Handed("add_ref", "Object", "dpiObject_addRef",
                                 dpiObject_addRef(heap, ub))
    /\ app' = app

Object_release ==
    /\ app.wrappers["Object"] > 0
    /\ \E ub \in Status : Handed("release", "Object", "dpiObject_release",
                                 dpiObject_release(heap, ub))
    /\ app' = app

Object_clone ==
    /\ app.wrappers["Object"] \in 1 .. (MaxWrappers - 1)
    /\ Wrapper("clone", "Object", app.wrappers["Object"] + 1)

\* a drop that gives up a reference, as an impl Drop for Object would
Object_drop_releasing ==
    /\ app.wrappers["Object"] > 0
    /\ \E ub \in Status : Handed("drop", "Object", "dpiObject_release",
                                 dpiObject_release(heap, ub))
    /\ app' = [app EXCEPT !.wrappers["Object"] = @ - 1]

Object_drop ==
    /\ app.wrappers["Object"] > 0
    /\ Wrapper("drop", "Object", app.wrappers["Object"] - 1)

Connection_new_subscription ==
    /\ ~heap.subscr.made
    /\ \E rc \in Status :
          LET r == dpiConn_newSubscription(heap, rc)
          IN /\ Handed("new_subscription", "Connection", "dpiConn_newSubscription", r)
             /\ app' = IF r.rc = "DPI_SUCCESS"
                       THEN [app EXCEPT !.wrappers["Subscription"] = 1] ELSE app

Subscription_add_ref ==
    /\ app.wrappers["Subscription"] > 0
    /\ heap.subscr.refs <= MaxRefs
    /\ \E ub \in Status : Handed("add_ref", "Subscription", "dpiSubscr_addRef",
                                 dpiSubscr_addRef(heap, ub))
    /\ app' = app

Subscription_close ==
    /\ app.wrappers["Subscription"] > 0
    /\ \E ub \in Status : Handed("close", "Subscription", "dpiSubscr_close",
                                 dpiSubscr_close(heap, ub))
    /\ app' = app

Subscription_release ==
    /\ app.wrappers["Subscription"] > 0
    /\ \E ub \in Status : Handed("release", "Subscription", "dpiSubscr_release",
                                 dpiSubscr_release(heap, ub))
    /\ app' = app

Subscription_clone ==
    /\ app.wrappers["Subscription"] \in 1 .. (MaxWrappers - 1)
    /\ Wrapper("clone", "Subscription", app.wrappers["Subscription"] + 1)

Subscription_drop ==
    /\ app.wrappers["Subscription"] > 0
    /\ Wrapper("drop", "Subscription", app.wrappers["Subscription"] - 1)

\* the application creating handles, copying and forgetting their wrappers
NextWrap ==
    \/ Connection_get_object_type(MaxAttrs)
    \/ ObjectType_create
    \/ Object_add_ref
    \/ Object_release
    \/ Object_clone
    \/ Object_drop
    \/ Connection_new_subscription
    \/ Subscription_add_ref
    \/ Subscription_close
    \/ Subscription_release
    \/ Subscription_clone
    \/ Subscription_drop

SpecWrap == Init /\ [][NextWrap]_vars

\* ================================================================ properties
HandleKinds == {"Connection", "Statement", "Var"}
WorkOps == {"bind_by_pos", "bind_by_name", "execute", "fetch", "fetch_rows",
            "scroll"}

\* what get_error would report if it were the next call
Reported == dpiContext_getError(errSlot)

\* C1: a handle stays usable while the application holds a reference (add_ref
\* and release return Ok through the first k releases after k add_refs), and
\* once its last reference is released every operation on it is rejected with
\* an error.
C1_UsableUntilLastRelease ==
    ret.obj \in HandleKinds =>
        /\ (ret.held >= 1 /\ ret.op \in {"add_ref", "release"} => ret.res = "Ok")
        /\ (ret.held = 0 => ret.res = "Err")

\* C2: release called on a handle whose reference count already reached zero
\* returns an error and does not hand the freed resource to the native library
\* again.
C2_NoSecondNativeRelease ==
    (ret.op = "release" /\ ret.obj \in HandleKinds /\ ret.freed) =>
        (ret.res = "Err" /\ ~ret.passed)

\* C3: close on a statement tears it down whatever its reference count, and
\* every later operation on that statement (bind_by_pos, bind_by_name, execute,
\* fetch, ...) fails.
C3_ClosedStatementRejectsWork ==
    /\ (ret.obj = "Statement" /\ ret.op = "close" /\ ret.res = "Ok")
           => ~heap.stmts[ret.h].open
    /\ (ret.obj = "Statement" /\ ret.op \in WorkOps /\ app.stmt[ret.h].closed)
           => ret.res = "Err"

\* C4: close does not consume a reference: a successful close leaves the count
\* where it was, and on a statement or connection that was closed and on which
\* the application still holds a reference, release returns Ok.
C4_ReleaseAfterCloseOk ==
    /\ (ret.op = "release" /\ ret.obj = "Statement" /\ ret.held >= 1
          /\ app.stmt[ret.h].closed) => ret.res = "Ok"
    /\ (ret.op = "release" /\ ret.obj = "Connection" /\ ret.held >= 1
          /\ app.connClosed) => ret.res = "Ok"
    /\ (ret.op = "close" /\ ret.obj = "Statement" /\ ret.res = "Ok" /\ ~ret.freed)
          => heap.stmts[ret.h].refs = ret.held
    /\ (ret.op = "close" /\ ret.obj = "Connection" /\ ret.res = "Ok" /\ ~ret.freed)
          => heap.conn.refs = ret.held

\* a statement closed while two references were held, then released once
C4_Witness ==
    /\ ret.op = "release" /\ ret.obj = "Statement" /\ ret.res = "Ok"
    /\ ret.held = 2
    /\ app.stmt[ret.h].closed
    /\ heap.stmts[ret.h].refs = 1

\* C5 as stated: the native error information of a failing call is captured in
\* that call, so whatever call comes next, what is reported for the failure is
\* still the information of the failing call.
C5_CapturedInFailingCall ==
    [][ret.res = "Err" => Reported' = ret.info]_vars

\* C5: the wrapper returns only the error kind and the native function's name;
\* the information of a failed native call stays in the thread's slot, and
\* get_error reports it when it is the next call made after the failure.
C5_ReportedToNextGetError ==
    (ret.op = "get_error" /\ ret.afterFail) =>
        (ret.info = ret.want /\ ret.info # NoInfo)

\* get_error called right after a fetch that failed
C5_Witness ==
    /\ ret.op = "get_error" /\ ret.afterFail
    /\ ret.info = ErrInfo("dpiStmt_fetch", "query not executed")

\* C6: on a statement whose native object is allocated, fetch and fetch_rows
\* succeed only if the statement has been executed and is a query: before
\* execute they fail, and after the execute of a non-query they fail.
C6_FetchNeedsExecutedQuery ==
    (ret.obj = "Statement" /\ ret.op \in {"fetch", "fetch_rows"} /\ ~ret.freed) =>
        /\ (ret.res = "Ok" =>
               (heap.stmts[ret.h].executed /\ heap.stmts[ret.h].cols >= 1))
        /\ (~heap.stmts[ret.h].executed => ret.res = "Err")
        /\ (heap.stmts[ret.h].cols = 0 => ret.res = "Err")

\* fetch_rows on an open query statement that was not executed yet
C6_Witness ==
    /\ ret.obj = "Statement" /\ ret.op = "fetch_rows" /\ ~ret.freed
    /\ ret.res = "Err"
    /\ ret.info = ErrInfo("dpiStmt_fetchRows", "query not executed")
    /\ heap.stmts[ret.h].cols >= 1

\* C7: on a statement whose native object is allocated, a successful execute
\* returns the number of query columns: at least 1 for a query and exactly 0
\* for a statement that is no query.
C7_ExecuteReturnsColumns ==
    (ret.obj = "Statement" /\ ret.op = "execute" /\ ret.res = "Ok" /\ ~ret.freed) =>
        /\ ret.val = heap.stmts[ret.h].cols
        /\ (heap.stmts[ret.h].cols >= 1 => ret.val >= 1)
        /\ (heap.stmts[ret.h].cols = 0 => ret.val = 0)

\* a query executed with success
C7_Witness ==
    /\ ret.obj = "Statement" /\ ret.op = "execute" /\ ret.res = "Ok"
    /\ ~ret.freed
    /\ heap.stmts[ret.h].cols >= 1
    /\ ret.val = heap.stmts[ret.h].cols

\* C8: scroll succeeds only on a statement that was prepared with
\* scrollable = true; on one prepared with scrollable = false it fails.
C8_ScrollNeedsScrollable ==
    (ret.obj = "Statement" /\ ret.op = "scroll" /\ ~ret.freed) =>
        (ret.res = "Ok" => app.stmt[ret.h].asked)

\* C9: prepare_stmt with both sql and tag omitted is rejected with an
\* InvalidArgument error and creates no statement; it succeeds only when at
\* least one of the two is given.
C9_PrepareNeedsSqlOrTag ==
    (ret.op = "prepare_stmt" /\ ret.args[1] = None /\ ret.args[2] = None) =>
        /\ ret.res = "Err"
        /\ ret.err.kind = "InvalidArgument"
        /\ ret.val = 0

\* C10: a successful bind of an allocated variable to a placeholder of an
\* allocated statement makes that variable the placeholder's binding, leaves
\* every other placeholder alone, takes one reference on the variable and
\* releases exactly one reference of the variable bound there before.
C10_RebindReleasesOne ==
    [][(/\ ret'.obj = "Statement"
        /\ ret'.op \in {"bind_by_pos", "bind_by_name"}
        /\ ret'.res = "Ok"
        /\ ~ret'.freed
        /\ ~Freed(heap.vars[ret'.args[2]])) =>
         LET s   == ret'.h
             key == ret'.args[1]
             v   == ret'.args[2]
             old == IF ret'.op = "bind_by_pos" THEN heap.binds[s].pos[key]
                    ELSE heap.binds[s].name[key]
             now == IF ret'.op = "bind_by_pos"
                    THEN [heap.binds[s] EXCEPT !.pos[key] = v]
                    ELSE [heap.binds[s] EXCEPT !.name[key] = v]
         IN /\ heap'.binds[s] = now
            /\ \A u \in VarIds :
                 heap'.vars[u].refs =
                     heap.vars[u].refs
                       + (IF u = v THEN 1 ELSE 0)
                       - (IF u = old /\ ~Freed(heap.vars[u]) THEN 1 ELSE 0)
       ]_vars

\* a bind by position that replaced another variable, which is still allocated
C10_Witness ==
    /\ ret.obj = "Statement" /\ ret.op = "bind_by_pos" /\ ret.res = "Ok"
    /\ ~ret.freed
    /\ ret.old \notin {NoVar, ret.args[2]}
    /\ heap.binds[ret.h].pos[ret.args[1]] = ret.args[2]
    /\ heap.vars[ret.old].refs >= 1

\* the placeholders, of every statement, that hold variable v
Placeholders(h, v) ==
    {t \in StmtIds \X {"name"} \X BindNames : h.binds[t[1]].name[t[3]] = v}
    \cup {t \in StmtIds \X {"pos"} \X BindPositions : h.binds[t[1]].pos[t[3]] = v}

Populated(h, v, k) == \A i \in 0 .. (k - 1) : ~h.data[v].cells[i].null

C13_BatchErrorsReturned ==
    (ret.obj = "Statement" /\ ~ret.freed) =>
        /\ ret.op = "get_batch_error_count" =>
              (ret.res = "Ok" /\ ret.val = Len(heap.batch[ret.h]))
        /\ (ret.op = "get_batch_errors" /\ ret.args[1] = Len(heap.batch[ret.h])) =>
              (ret.res = "Ok" /\ ret.val = BatchErrors(heap.batch[ret.h]))

ReplacesBuffer(v) ==
    /\ ret'.obj = "Statement" /\ ret'.op = "execute" /\ ret'.res = "Ok"
    /\ heap.returning[ret'.h]
    /\ v \in BoundVars(heap, ret'.h)

\* C15: a variable created with max_array_size = N has N elements, get_data on
\* an allocated variable returns exactly the elements it has, and no step but
\* the execute of a DML returning statement the variable is bound to changes
\* their number.
C15_GetDataExposesAllCells ==
    [][/\ (ret'.obj = "Connection" /\ ret'.op = "new_var" /\ ret'.res = "Ok"
             /\ ~ret'.freed) =>
              (/\ heap'.data[ret'.val].size = ret'.args[1]
               /\ ~heap.vars[ret'.val].made)
       /\ (ret'.obj = "Var" /\ ret'.op = "get_data" /\ ~ret'.freed) =>
              (/\ ret'.res = "Ok"
               /\ Len(ret'.val) = heap.data[ret'.h].size
               /\ \A i \in 1 .. Len(ret'.val) :
                    ret'.val[i] = heap.data[ret'.h].cells[i - 1])
       /\ \A v \in VarIds :
            (heap.vars[v].made /\ ~ReplacesBuffer(v)) =>
                heap'.data[v].size = heap.data[v].size
      ]_vars

\* get_data on a variable of two elements after an element was written
C15_Witness ==
    /\ ret.obj = "Var" /\ ret.op = "get_data" /\ ret.res = "Ok" /\ ~ret.freed
    /\ Len(ret.val) = 2
    /\ ~ret.val[2].null

\* the operations that write a string into one element
StringWrites == {"set_string", "set_from_bytes"}

\* C16: a string written into an element with set_string is the string read
\* back from that element, for every valid UTF-8 string no longer than the
\* capacity of the buffer; a longer string is rejected with InvalidArgument.
C16_SetStringRoundTrip ==
    [][ /\ ( /\ ret.op \in StringWrites
             /\ ret.res = "Ok"
             /\ Len(ret.args[2]) <= heap.data[ret.h].cap
             /\ ret'.op = "get_string"
             /\ ret'.h = ret.h
             /\ ret'.args[1] = ret.args[1] )
           => ret'.val = ret.args[2]
        /\ ( /\ ret'.op \in StringWrites
             /\ ~Freed(heap.vars[ret'.h])
             /\ ret'.args[1] < heap.data[ret'.h].size
             /\ Len(ret'.args[2]) > heap.data[ret'.h].cap )
           => /\ ret'.res = "Err"
              /\ ret'.err.kind = "InvalidArgument" ]_vars

\* the operations that write one element, addressed by its position
CellWrites ==
    {"set_from_bytes", "set_from_lob", "set_from_object", "set_from_rowid",
     "set_from_stmt"}

\* the last call addressed an element that the buffer does not have
OutOfRange(r, h) ==
    \/ r.op \in CellWrites /\ r.args[1] >= h.data[r.h].size
    \/ /\ r.op = "copy_data"
       /\ \/ r.args[1] >= h.data[r.h].size
          \/ r.args[3] >= h.data[r.args[2]].size

\* C17: a write of one element (set_from_bytes, set_from_lob, set_from_object,
\* set_from_rowid, set_from_stmt) or a copy of one element whose position is
\* not below the number of elements of the buffer it addresses fails, and
\* every element of every buffer is as it was.
C17_OutOfRangeWriteFails ==
    [][ OutOfRange(ret', heap)
        => /\ ret'.res = "Err"
           /\ heap'.data = heap.data ]_vars

\* a copy of a written element to a position past the end of dst has failed
C17_Witness ==
    /\ ret.op = "copy_data"
    /\ ret.res = "Err"
    /\ ret.args[1] < heap.data[ret.h].size
    /\ ~heap.data[ret.h].cells[ret.args[1]].null
    /\ ret.args[3] >= heap.data[ret.args[2]].size

\* the calls that convert a timestamp into a date and time
TimeOps == {"into", "get_utc", "get_enq_time"}

\* C18: converting the timestamp with year -10100, month 0 and day 0 gives the
\* current time and does not panic, whichever conversion is used.
C18_SentinelIsNow ==
    (ret.op \in TimeOps /\ ret.res # "Err" /\ Sentinel(ret.args[1]))
        => (ret.res = "Ok" /\ ret.val = Now)

\* a timestamp of an existing date and time with fsecond within a second
ValidTimestamp(t) ==
    /\ ValidDate(t.year, t.month, t.day)
    /\ ValidTime(t.hour, t.minute, t.second)
    /\ t.fsecond <= 999999999

\* C19: for a timestamp of an existing date, other than the sentinel, with
\* fsecond in 0 .. 999999999, the converted date and time has fsecond as its
\* nanoseconds, and the conversion does not overflow a u32.
C19_FsecondIsNanoseconds ==
    ( /\ ret.op \in TimeOps
      /\ ret.res # "Err"
      /\ ~Sentinel(ret.args[1])
      /\ ValidTimestamp(ret.args[1]) )
        => /\ ret.res = "Ok"
           /\ ret.val.nanosecond = ret.args[1].fsecond
           /\ ~MulThousand(ret.args[1].fsecond).overflow

\* C20: begin_distrib_trans with a transaction id or a branch id of more than
\* 64 bytes returns the error of that id and makes no native call, so that the
\* connection and the error slot are as before; when both are too long the
\* error is the one of the transaction id; ids of up to 64 bytes, 64 included,
\* are handed to the native call, which begins the transaction on an open
\* connection.
C20_LongIdsRefused ==
    [][ ret'.op = "begin_distrib_trans"
        => LET txn_id    == ret'.args[2]
               branch_id == ret'.args[3]
           IN IF txn_id > 64 \/ branch_id > 64
              THEN /\ ret'.res = "Err"
                   /\ ret'.err.kind = (IF txn_id > 64 THEN "TxnId" ELSE "BranchId")
                   /\ ~ret'.passed
                   /\ heap' = heap
                   /\ errSlot' = errSlot
              ELSE /\ ret'.passed
                   /\ (~Freed(heap.conn) /\ heap.conn.open)
                        => /\ ret'.res = "Ok"
                           /\ heap'.txn = [begun |-> TRUE, format_id |-> ret'.args[1],
                                           txn_id |-> txn_id, branch_id |-> branch_id]
      ]_vars

\* both ids were one byte too long and the call was refused; and a transaction
\* with ids of exactly 64 bytes was begun before
C20_Witness ==
    /\ ret.op = "begin_distrib_trans"
    /\ ret.args[2] = 65
    /\ ret.args[3] = 65
    /\ ret.err.kind = "TxnId"
    /\ heap.txn.begun
    /\ heap.txn.txn_id = 64
    /\ heap.txn.branch_id = 64

\* the kind of error that belongs to each wrapper
KindOf(obj) ==
    CASE obj = "Options"    -> "EnqOptions"
      [] obj = "Properties" -> "MsgProps"
      [] obj = "Object"     -> "Object"

\* C21: when the native call behind an operation reports failure the operation
\* returns an error of the kind of its own wrapper that names the native
\* function that was called, and it returns Ok only when the native call
\* reported success.
C21_ErrorNamesNativeCall ==
    ret.obj \in {"Options", "Properties", "Object"}
        => /\ ret.info # NoInfo
                => /\ ret.res = "Err"
                   /\ ret.err.kind = KindOf(ret.obj)
                   /\ ret.err.fn = ret.info.fn
           /\ ret.res = "Ok" => ret.info = NoInfo

\* C22: no two threads are inside native calls on the same handle at the same
\* time; a handle wrapper is not shared between threads.
C22_OneThreadPerHandle ==
    \A t, u \in Threads :
        (t # u /\ app.thread[t].inside /\ app.thread[u].inside)
            => app.thread[t].handle # app.thread[u].handle

\* the elements of a sequence in the opposite order
Reverse(seq) == [i \in 1 .. Len(seq) |-> seq[Len(seq) + 1 - i]]

\* the first n elements of seq are the sequence pre
IsPrefix(pre, seq) ==
    Len(pre) <= Len(seq) /\ SubSeq(seq, 1, Len(pre)) = pre

\* C23: a walk that starts at get_first_index and goes on with get_next_index
\* is given the existing indices of the collection in ascending order, all of
\* them by the time it is told that no more exist; a walk from get_last_index
\* with get_prev_index is given the same indices in descending order.
C23_WalkVisitsExisting ==
    LET up   == Ascending(Existing(heap.coll))
        down == Reverse(up)
    IN /\ app.walk.dir = "up"
            => /\ IsPrefix(app.walk.seen, up)
               /\ app.walk.done => app.walk.seen = up
       /\ app.walk.dir = "down"
            => /\ IsPrefix(app.walk.seen, down)
               /\ app.walk.done => app.walk.seen = down

\* a walk upwards over a collection with a hole has ended after two indices
C23_Witness ==
    /\ app.walk.dir = "up"
    /\ app.walk.done
    /\ Len(app.walk.seen) = 2
    /\ Existing(heap.coll) = {0, 2}
    /\ ret.op = "get_next_index"
    /\ ret.val = <<0, FALSE>>

\* the larger of two numbers
Max(a, b) == IF a >= b THEN a ELSE b

\* offsets at which the content of the LOB is compared before and after a write
Probes == {1, 2, 3, 8131, 8132, 8133, 8134, 8135, 16263, 16264}

\* C24: writing len bytes at the 1-based offset o of a temporary LOB makes its
\* size the larger of the previous size and o - 1 + len, puts the written byte
\* at the offsets o .. o + len - 1 and leaves every other offset as it was;
\* get_size returns the size, and read_bytes(o2, n) returns the n bytes at
\* o2 .. o2 + n - 1 that are within the size and changes nothing.
C24_LobWriteThenRead ==
    [][ /\ (ret'.op = "write_bytes" /\ ret'.res = "Ok")
            => LET b   == ret'.args[1]
                   len == ret'.args[2]
                   o   == ret'.args[3]
                   old == heap.lob.runs
                   new == heap'.lob.runs
               IN /\ RunsSize(new) = Max(RunsSize(old), o - 1 + len)
                  /\ \A p \in Probes :
                        p <= RunsSize(new)
                           => ByteAt(new, p) = IF p >= o /\ p < o + len THEN b
                                               ELSE ByteAt(old, p)
        /\ (ret'.op = "get_size" /\ ret'.res = "Ok")
            => ret'.val = RunsSize(heap.lob.runs) /\ heap' = heap
        /\ (ret'.op = "read_bytes" /\ ret'.res = "Ok")
            => LET o2 == ret'.args[1]
                   n  == ret'.args[2]
               IN /\ heap' = heap
                  /\ \A i \in 1 .. n :
                        o2 + i - 1 <= RunsSize(heap.lob.runs)
                           => /\ Len(ret'.val) >= i
                              /\ ret'.val[i] = ByteAt(heap.lob.runs, o2 + i - 1)
      ]_vars

\* 8132 zero bytes at offset 1 and 8132 one bytes at offset 8133 were written,
\* and two bytes were read at offset 8132
C24_Witness ==
    /\ heap.lob.runs = <<[n |-> 8132, b |-> 0], [n |-> 8132, b |-> 1]>>
    /\ RunsSize(heap.lob.runs) = 16264
    /\ ret.op = "read_bytes"
    /\ ret.args = <<8132, 2>>
    /\ ret.val = <<0, 1>>

\* the getter of the name that each setter sets
GetterOf(op) ==
    IF op = "set_external_name" THEN "get_external_name" ELSE "get_internal_name"

\* C25: set_external_name(s) followed by get_external_name() on the same
\* connection returns Ok with exactly s, and so does set_internal_name(s)
\* followed by get_internal_name(), for every s without a NUL byte.
C25_NameRoundTrip ==
    [][ ( /\ ret.op \in {"set_external_name", "set_internal_name"}
          /\ ret.res = "Ok"
          /\ ~HasNul(ret.args[1])
          /\ ret'.op = GetterOf(ret.op) )
        => /\ ret'.res = "Ok"
           /\ ret'.val = ret.args[1] ]_vars

\* the internal name was read back while the external name is another one
C25_Witness ==
    /\ ret.op = "get_internal_name"
    /\ ret.res = "Ok"
    /\ ret.val = <<101, 120>>
    /\ ~heap.conn.external_name.null
    /\ heap.conn.external_name.at = <<101, Nul>>

\* C26: dropping a Context calls the native destroy exactly once, and a
\* failure of that destroy is not handed to any caller and does not panic:
\* drop returns normally and leaves the failure at most in the log.
C26_DropDestroysOnce ==
    /\ \A c \in CtxIds :
          heap.ctxts[c].destroys = IF app.ctxt[c].state = "dropped" THEN 1 ELSE 0
    /\ ret.op = "drop" => (ret.res = "Ok" /\ ret.err = NoErr)

\* a context was dropped and the library could not destroy it
C26_Witness ==
    /\ ret.op = "drop"
    /\ ret.info = ErrInfo("dpiContext_destroy", "cannot destroy")
    /\ app.ctxt[ret.h].state = "dropped"
    /\ heap.ctxts[ret.h].made

\* C27: after set_utc(t), set_duration(d) or set_years_months(y, m) on a cell,
\* the matching getter on the same cell returns the value just written.
C27_SetThenGet ==
    ( /\ ret.op \in {"get_utc", "get_duration", "get_years_months"}
      /\ ret.old # <<>> )
    => ret.val = ret.old[1]

Setters == {"set_boolean", "set_double", "set_int64", "set_duration", "set_utc",
            "set_years_months"}

\* C29: the value setters of Data change only the payload of the cell and
\* leave its is_null flag as it was, so a cell that was null before a setter
\* call is still flagged null after it.
C29_SettersKeepIsNull ==
    (ret.obj = "Data" /\ ret.op \in Setters) => heap.cell.is_null = ret.old

\* set_int64 wrote 7 over -1 in a cell that is flagged null
C29_Witness ==
    /\ ret.op = "set_int64"
    /\ ret.old = 1
    /\ heap.cell = ODPIData("Int64", 1, 7)

\* C28: every handle in the vector returned by get_attributes(length) was
\* written by the native call: the result never contains an entry the native
\* library did not fill in, also when length is larger than the number of
\* attributes the type has.
C28_AttributesAllWritten ==
    (ret.op = "get_attributes" /\ ret.res = "Ok")
    => \A i \in 1 .. Len(ret.val) : ret.val[i].by = "native"

\* the reference counts the library keeps
Counts(h) == <<h.object.refs, h.subscr.refs>>

\* C30: apart from Context, dropping or cloning a handle wrapper makes no
\* native call and leaves the native reference count as it is; the count of a
\* handle changes only in an explicit add_ref, release or close call.
C30_DropAndCloneAreLocal ==
    [][ /\ (ret'.op \in {"drop", "clone"} /\ ret'.obj # "Context")
           => (heap' = heap /\ errSlot' = errSlot /\ ~ret'.passed)
        /\ (heap.object.made /\ heap'.object.refs # heap.object.refs)
           => (ret'.obj = "Object" /\ ret'.op \in {"add_ref", "release", "close"})
        /\ (heap.subscr.made /\ heap'.subscr.refs # heap.subscr.refs)
           => (ret'.obj = "Subscription" /\ ret'.op \in {"add_ref", "release", "close"})
      ]_vars

\* the last wrapper of an object was dropped while the library still counts
\* two references to the object
C30_Witness ==
    /\ ret.op = "drop"
    /\ ret.obj = "Object"
    /\ app.wrappers["Object"] = 0
    /\ heap.object.refs = 2
====
